---- MODULE Spec2Model ----
(***************************************************************************)
(* A model of the adapter/normalisation core of mac-agent-gateway:         *)
(* the contact resolution cache (services/contacts.py), the watch stream   *)
(* and the send path (services/imsg.py, routers/messages.py) and the text  *)
(* cleaning of messages.                                                   *)
(*                                                                         *)
(* Strings are sequences of one-character strings, so that phone           *)
(* normalisation, lowercasing and cleaning are computed character by       *)
(* character as the code computes them.                                    *)
(***************************************************************************)
EXTENDS Integers, Sequences, FiniteSets, TLC

VARIABLES
    contacts,      \* ContactCache._contacts: contact id -> Contact
    phone_index,   \* ContactCache._phone_index: normalized phone -> contact id
    email_index,   \* ContactCache._email_index: lowercased email -> contact id
    file,          \* the persistence file of the cache
    nextId,        \* the number of contact ids handed out so far (uuid4 is fresh)
    ret,           \* what the last call on the cache returned
    wpc,           \* per watch stream: where watch_messages stands
    whow,          \* per watch stream: how the stream ends ("" while it is open)
    proc,          \* per watch stream: the subprocess it started
    pipe,          \* per watch stream: the lines in the stdout pipe, not yet read
    written,       \* per watch stream: how many lines the subprocess has written
    delivered,     \* per watch stream: the numbers of the lines yielded as messages
    running,       \* the request whose handler the event loop is running, 0 when none
    req,           \* per request on the contacts endpoints: its call and where it stands
    allowlist,     \* Settings.get_send_allowlist(): the configured recipients
    allow_unknown_recipients,  \* Settings.allow_unknown_recipients
    threads,       \* what imsg reports per thread: its messages and participants
    handed,        \* the recipients handed to the imsg send command so far
    resp,          \* the response of the last send or reply request
    pii_filter,    \* Settings.pii_filter
    message,       \* the last Message the core produced: its path, raw text and text
    call,          \* per caller of a CLI adapter: the tool, the subprocess, where the call stands
    lookup,        \* the answer to the last request that looks a thread up or sends
    handled,       \* the last request a router validated: its parameters, its status, subprocess or not
    parsed,        \* the output of the last structured call that succeeded, and its result
    searched,      \* the last call of search_messages_fast: its input, its matches, the last line it examined
    linked,        \* a request for links: its thread, messages, limit and direction, and its answer
    sought,        \* a call of find_thread_by_recipient: the listing, max_threads, and its probes and result
    aliased,       \* a field with two keys, what the record holds for them, and the value taken
    shown,         \* a request for reminders: its filter, date and list, and the arguments handed to remindctl
    errpipe        \* per watch stream: the chunks its subprocess wrote to stderr that nobody has read

cacheVars == <<contacts, phone_index, email_index, file, nextId, ret>>

watchVars == <<wpc, whow, proc, pipe, written, delivered>>

concVars == <<running, req>>

sendVars == <<allowlist, allow_unknown_recipients, threads, handed, resp>>

textVars == <<pii_filter, message>>

adapterVars == <<call>>

lookupVars == <<lookup>>

validateVars == <<handled>>

parseVars == <<parsed>>

searchVars == <<searched>>

linkVars == <<linked>>

findVars == <<sought>>

aliasVars == <<aliased>>

showVars == <<shown>>

stallVars == <<errpipe>>

nonCacheVars == <<watchVars, concVars, sendVars, textVars, adapterVars, lookupVars, validateVars, parseVars, searchVars, linkVars, findVars, aliasVars, showVars, stallVars>>

nonWatchVars == <<cacheVars, concVars, sendVars, textVars, adapterVars, lookupVars, validateVars, parseVars, searchVars, linkVars, findVars, aliasVars, showVars, stallVars>>

nonConcVars == <<watchVars, sendVars, textVars, adapterVars, lookupVars, validateVars, parseVars, searchVars, linkVars, findVars, aliasVars, showVars, stallVars>>

nonSendVars == <<cacheVars, watchVars, concVars, textVars, adapterVars, lookupVars, validateVars, parseVars, searchVars, linkVars, findVars, aliasVars, showVars, stallVars>>

nonTextVars == <<cacheVars, watchVars, concVars, sendVars, adapterVars, lookupVars, validateVars, parseVars, searchVars, linkVars, findVars, aliasVars, showVars, stallVars>>

nonLookupVars == <<cacheVars, watchVars, concVars, sendVars, textVars, adapterVars, validateVars, parseVars, searchVars, linkVars, findVars, aliasVars, showVars, stallVars>>

nonValidateVars == <<cacheVars, watchVars, concVars, sendVars, textVars, adapterVars, lookupVars, parseVars, searchVars, linkVars, findVars, aliasVars, showVars, stallVars>>

nonParseVars == <<cacheVars, watchVars, concVars, sendVars, textVars, adapterVars, lookupVars, validateVars, searchVars, linkVars, findVars, aliasVars, showVars, stallVars>>

nonSearchVars == <<cacheVars, watchVars, concVars, sendVars, textVars, adapterVars, lookupVars, validateVars, parseVars, linkVars, findVars, aliasVars, showVars, stallVars>>

nonLinkVars == <<cacheVars, watchVars, concVars, sendVars, textVars, adapterVars, lookupVars, validateVars, parseVars, searchVars, findVars, aliasVars, showVars, stallVars>>

nonFindVars == <<cacheVars, watchVars, concVars, sendVars, textVars, adapterVars, lookupVars, validateVars, parseVars, searchVars, linkVars, aliasVars, showVars, stallVars>>

nonAliasVars == <<cacheVars, watchVars, concVars, sendVars, textVars, adapterVars, lookupVars, validateVars, parseVars, searchVars, linkVars, findVars, showVars, stallVars>>

nonShowVars == <<cacheVars, watchVars, concVars, sendVars, textVars, adapterVars, lookupVars, validateVars, parseVars, searchVars, linkVars, findVars, aliasVars, stallVars>>

\* the variables that no step of a watch stream or of its subprocess changes
nonStallVars == <<cacheVars, concVars, sendVars, textVars, adapterVars, lookupVars, validateVars, parseVars, searchVars, linkVars, findVars, aliasVars, showVars>>

vars == <<cacheVars, watchVars, concVars, sendVars, textVars, adapterVars, lookupVars, validateVars, parseVars, searchVars, linkVars, findVars, aliasVars, showVars, stallVars>>

-----------------------------------------------------------------------------
(* Bounds of the model *)

\* how many contacts are ever created in one run (each gets a fresh id)
MaxContacts == 3

\* the same, in the runs that also resolve by phone and email or that reload
\* the file
MaxKeyed == 2

\* how many contacts are created in the runs that send
MaxKnown == 1

\* how many threads imsg knows
MaxThreads == 1

\* how many messages the history of a thread holds
MaxHistory == 2

\* how many requests use the contact cache at the same time
MaxRequests == 3

\* how many watch streams are open at the same time
MaxStreams == 2

\* how many lines a watch subprocess writes to its stdout
MaxLines == 2

\* the calls of CLI adapters in flight at once
MaxCallers == 2

\* the reminder ids of a bulk request
MaxIds == 2

\* the lines of the output of a structured call
MaxOutLines == 3

\* the lines of a history that is searched
MaxScan == 3

\* the largest result_limit of a search
MaxResults == 2

\* the messages fetched for a request for links
MaxFetched == 3

\* the largest limit of a request for links
MaxLinks == 2

\* how many chunks of stderr output fit in the pipe and in the buffer of
\* proc.stderr together
StderrCapacity == 2

\* the threads imsg knows, and the largest max_threads
MaxListed == 3

-----------------------------------------------------------------------------
(* Strings *)

\* Python's None where a str is optional
None == <<"<None>">>

\* Python truthiness of an optional str: neither None nor ""
Truthy(s) == s # None /\ s # <<>>

IsDigit(c) == c \in {"0", "1", "2", "3", "4", "5", "6", "7", "8", "9"}

IsSpace(c) == c \in {" ", "\t", "\n"}

RECURSIVE LStrip(_)
LStrip(s) == IF s # <<>> /\ IsSpace(Head(s)) THEN LStrip(Tail(s)) ELSE s

RECURSIVE RStrip(_)
RStrip(s) ==
    IF s # <<>> /\ IsSpace(s[Len(s)]) THEN RStrip(SubSeq(s, 1, Len(s) - 1)) ELSE s

\* str.strip()
Strip(s) == RStrip(LStrip(s))

LowerChar(c) ==
    CASE c = "A" -> "a"
      [] c = "B" -> "b"
      [] c = "C" -> "c"
      [] c = "D" -> "d"
      [] c = "E" -> "e"
      [] c = "I" -> "i"
      [] c = "L" -> "l"
      [] c = "N" -> "n"
      [] c = "R" -> "r"
      [] c = "S" -> "s"
      [] c = "T" -> "t"
      [] OTHER -> c

\* str.lower()
Lower(s) == [i \in 1..Len(s) |-> LowerChar(s[i])]

\* Python's `a in b` on strings: a is a contiguous substring of b
Contains(b, a) ==
    \E i \in 1..(Len(b) - Len(a) + 1) : SubSeq(b, i, i + Len(a) - 1) = a

\* ContactCache._normalize_phone
_normalize_phone(phone) ==
    LET p == Strip(phone)
    IN  IF p # <<>> /\ Head(p) = "+"
        THEN <<"+">> \o SelectSeq(Tail(p), IsDigit)
        ELSE SelectSeq(p, IsDigit)

-----------------------------------------------------------------------------
(* The contact cache *)

\* no contact id (Python's None where an id is optional)
NoId == 0

EmptyMap == [x \in {} |-> NoId]

Contact(id, name, phones, emails, aliases) ==
    [id |-> id, name |-> name, phones |-> phones, emails |-> emails,
     aliases |-> aliases]

Range(s) == {s[i] : i \in 1..Len(s)}

\* the lists of at most n distinct elements of S
ListsUpTo(S, n) ==
    {s \in UNION {[1..k -> S] : k \in 0..n} :
        \A i, j \in 1..Len(s) : i # j => s[i] # s[j]}

PhoneKeys(c) == {_normalize_phone(p) : p \in c.phones}

EmailKeys(c) == {Lower(e) : e \in c.emails}

\* dict.pop(key, None) for every key of K
PopKeys(idx, K) == [k \in (DOMAIN idx) \ K |-> idx[k]]

\* idx[key] = id for every key of K
PutKeys(idx, K, id) ==
    [k \in (DOMAIN idx) \cup K |-> IF k \in K THEN id ELSE idx[k]]

\* ContactCache._index_contact, on a pair of indices
_index_contact(idx, c) ==
    [phone |-> PutKeys(idx.phone, PhoneKeys(c), c.id),
     email |-> PutKeys(idx.email, EmailKeys(c), c.id)]

\* ContactCache._unindex_contact, on a pair of indices
_unindex_contact(idx, c) ==
    [phone |-> PopKeys(idx.phone, PhoneKeys(c)),
     email |-> PopKeys(idx.email, EmailKeys(c))]

Indices == [phone |-> phone_index, email |-> email_index]

\* the position of the first key of the sequence keys that is in idx, 0 when
\* there is none
FirstHit(keys, idx) ==
    IF \E i \in 1..Len(keys) : keys[i] \in DOMAIN idx
    THEN CHOOSE i \in 1..Len(keys) :
            /\ keys[i] \in DOMAIN idx
            /\ \A j \in 1..(i - 1) : keys[j] \notin DOMAIN idx
    ELSE 0

\* upsert, lines 113-126: the id the indices give for the data
ExistingId(data) ==
    LET pkeys == [i \in 1..Len(data.phones) |-> _normalize_phone(data.phones[i])]
        ekeys == [i \in 1..Len(data.emails) |-> Lower(data.emails[i])]
        ph == FirstHit(pkeys, phone_index)
        em == FirstHit(ekeys, email_index)
    IN  IF ph # 0 THEN phone_index[pkeys[ph]]
        ELSE IF em # 0 THEN email_index[ekeys[em]]
        ELSE NoId

\* upsert, line 134: contact.name = data.name or contact.name
MergeName(new, old) == IF Truthy(new) THEN new ELSE old

\* upsert, lines 134-137
MergeContact(c, data) ==
    Contact(c.id, MergeName(data.name, c.name),
            c.phones \cup Range(data.phones),
            c.emails \cup Range(data.emails),
            c.aliases \cup Range(data.aliases))

\* upsert, lines 141-146
NewContact(id, data) ==
    Contact(id, data.name, Range(data.phones), Range(data.emails),
            Range(data.aliases))

\* list(a set): the elements of S in some order
RECURSIVE SetToSeq(_)
SetToSeq(S) ==
    IF S = {} THEN <<>>
    ELSE LET x == CHOOSE y \in S : TRUE IN <<x>> \o SetToSeq(S \ {x})

\* Contact.model_dump(mode="json"): the JSON object of a contact
model_dump(c) ==
    [id |-> c.id, name |-> c.name, phones |-> SetToSeq(c.phones),
     emails |-> SetToSeq(c.emails), aliases |-> SetToSeq(c.aliases)]

\* Contact(**item): the contact of a JSON object
ContactOfItem(item) ==
    Contact(item.id, item.name, Range(item.phones), Range(item.emails),
            Range(item.aliases))

\* _save, line 61: the JSON objects of the contacts of ids, in the order of
\* the dict, which is the order the contacts were created in
RECURSIVE contacts_list(_, _)
contacts_list(cs, ids) ==
    IF ids = {} THEN <<>>
    ELSE LET first == CHOOSE i \in ids : \A j \in ids : i <= j
         IN  <<model_dump(cs[first])>> \o contacts_list(cs, ids \ {first})

\* the outcomes of _save: "ok", or an OSError that the code logs and swallows
\* (lines 69-70): raised by mkdir or open ("open_failed", the file keeps its
\* content), while writing ("write_failed", open(..., "w") truncated the file
\* and the document is incomplete) or by chmod ("chmod_failed", the document
\* is complete)
SaveOutcomes == {"ok", "open_failed", "write_failed", "chmod_failed"}

\* a _save that runs before the mutation it belongs to: it writes the
\* contacts as they were
_save_BeforeMutation(cs, io) ==
    CASE io \in {"ok", "chmod_failed"} ->
            [state |-> "ok", data |-> contacts_list(contacts, DOMAIN contacts)]
      [] io = "open_failed" -> file
      [] OTHER -> [state |-> "corrupt", data |-> <<>>]

\* ContactCache._save, with its outcome io
_save(cs, io) ==
    CASE io \in {"ok", "chmod_failed"} ->
            [state |-> "ok", data |-> contacts_list(cs, DOMAIN cs)]
      [] io = "open_failed" -> file
      [] OTHER -> [state |-> "corrupt", data |-> <<>>]

\* _load, lines 44-47: the contact map after the first n items of the list
RECURSIVE LoadContacts(_, _)
LoadContacts(data, n) ==
    IF n = 0 THEN EmptyMap
    ELSE LET cs == LoadContacts(data, n - 1)
             c == ContactOfItem(data[n])
         IN  [i \in (DOMAIN cs) \cup {c.id} |-> IF i = c.id THEN c ELSE cs[i]]

\* _load, lines 44-47: the indices after the first n items of the list
RECURSIVE LoadIndices(_, _)
LoadIndices(data, n) ==
    IF n = 0 THEN [phone |-> EmptyMap, email |-> EmptyMap]
    ELSE _index_contact(LoadIndices(data, n - 1), ContactOfItem(data[n]))

\* what a call saw when it called _save: the outcome of the write and the
\* in-memory state at that moment ("none": the call did not save)
NotSaved == [io |-> "none", ids |-> {}, phone |-> EmptyMap, email |-> EmptyMap]

AtSave(cs, idx, io) ==
    [io |-> io, ids |-> DOMAIN cs, phone |-> idx.phone, email |-> idx.email]

NoArgs == <<>>

Ret(op, args, id, ok, status, cands, saved) ==
    [op |-> op, args |-> args, id |-> id, ok |-> ok, status |-> status,
     cands |-> cands, saved |-> saved]

\* ContactCache.upsert; ret.ok tells whether an existing contact was updated
upsert(data, io, limit) ==
    LET existing_id == ExistingId(data)
        update == existing_id # NoId /\ existing_id \in DOMAIN contacts
    IN  /\ update \/ nextId < limit
        /\ LET contact == IF update
                          THEN MergeContact(contacts[existing_id], data)
                          ELSE NewContact(nextId + 1, data)
               unindexed == IF update
                            THEN _unindex_contact(Indices, contacts[existing_id])
                            ELSE Indices
               indexed == _index_contact(unindexed, contact)
               cs == [i \in (DOMAIN contacts) \cup {contact.id} |->
                        IF i = contact.id THEN contact ELSE contacts[i]]
           IN  /\ contacts' = cs
               /\ phone_index' = indexed.phone
               /\ email_index' = indexed.email
               /\ nextId' = IF update THEN nextId ELSE nextId + 1
               /\ file' = _save(cs, io)
               /\ ret' = Ret("upsert", NoArgs, contact.id, update, "", {},
                             AtSave(cs, indexed, io))

\* a delete that forgets the email index
DeleteUnindex_PhonesOnly(idx, contact) ==
    [phone |-> PopKeys(idx.phone, PhoneKeys(contact)), email |-> idx.email]

\* ContactCache.delete, line 277: the indices after the deleted contact was
\* unindexed
DeleteUnindex(idx, contact) == _unindex_contact(idx, contact)

\* ContactCache.delete; ret.ok is the value returned
delete(contact_id, io) ==
    IF contact_id \in DOMAIN contacts
    THEN LET contact == contacts[contact_id]
             cs == [i \in (DOMAIN contacts) \ {contact_id} |-> contacts[i]]
             unindexed == DeleteUnindex(Indices, contact)
         IN  /\ contacts' = cs
             /\ phone_index' = unindexed.phone
             /\ email_index' = unindexed.email
             /\ file' = _save(cs, io)
             /\ ret' = Ret("delete", <<contact_id>>, contact_id, TRUE, "", {},
                           AtSave(cs, unindexed, io))
             /\ UNCHANGED nextId
    ELSE /\ ret' = Ret("delete", <<contact_id>>, contact_id, FALSE, "", {},
                       NotSaved)
         /\ UNCHANGED <<contacts, phone_index, email_index, file, nextId>>

\* ContactCache.clear
clear(io) ==
    /\ contacts' = EmptyMap
    /\ phone_index' = EmptyMap
    /\ email_index' = EmptyMap
    /\ file' = _save(EmptyMap, io)
    /\ ret' = Ret("clear", NoArgs, NoId, TRUE, "", {},
                  AtSave(EmptyMap, [phone |-> EmptyMap, email |-> EmptyMap], io))
    /\ UNCHANGED nextId

\* what Contact(**item) raises (line 45) for an item that is no contact
\* record: pydantic's ValidationError (a ValueError), or a TypeError when the
\* item is no JSON object
ItemErrors == {"ValidationError", "TypeError"}

\* _load, line 50: except (json.JSONDecodeError, OSError); the file states
\* are "missing", "corrupt" (no JSON document), "not_list" (a JSON document
\* that is no list), "ok" (a list of contact records) and "invalid_entry" (a
\* list whose records file.data are followed by an item that is no contact
\* record)
LoadRaises(state) == state = "invalid_entry"

\* ContactCache.__init__ and _load of a new process on the file: a missing
\* file, a file that is no JSON document and a document that is no list give
\* an empty cache; an item that is no contact record makes the constructor
\* raise, and no cache exists
_load ==
    LET raises == LoadRaises(file.state)
        data == IF file.state \in {"ok", "invalid_entry"} /\ ~raises
                THEN file.data ELSE <<>>
        cs == LoadContacts(data, Len(data))
        idx == LoadIndices(data, Len(data))
    IN  /\ contacts' = cs
        /\ phone_index' = idx.phone
        /\ email_index' = idx.email
        /\ \E e \in ItemErrors :
             ret' = Ret("load", NoArgs, NoId, file.state = "ok",
                        IF raises THEN e ELSE file.state, DOMAIN cs, NotSaved)
        /\ UNCHANGED <<file, nextId>>

\* resolve, lines 180-184: the contact the phone index gives, NoId when none
ResolveByPhone(phone) ==
    IF Truthy(phone) /\ _normalize_phone(phone) \in DOMAIN phone_index
       /\ phone_index[_normalize_phone(phone)] \in DOMAIN contacts
    THEN phone_index[_normalize_phone(phone)]
    ELSE NoId

\* resolve, lines 187-190: the contact the email index gives, NoId when none
ResolveByEmail(email) ==
    IF Truthy(email) /\ Lower(email) \in DOMAIN email_index
       /\ email_index[Lower(email)] \in DOMAIN contacts
    THEN email_index[Lower(email)]
    ELSE NoId

\* resolve, lines 197-199
exact_matches(name) ==
    {i \in DOMAIN contacts :
        Truthy(contacts[i].name) /\ Lower(contacts[i].name) = Lower(name)}

\* resolve, lines 209-217
substring_matches(name) ==
    {i \in DOMAIN contacts :
        \/ Truthy(contacts[i].name) /\ Contains(Lower(contacts[i].name), Lower(name))
        \/ \E alias \in contacts[i].aliases : Contains(Lower(alias), Lower(name))}

OnlyElement(S) == CHOOSE x \in S : TRUE

\* a name matching that goes to substring matching without looking for
\* exact matches first
ResolveByName_SubstringOnly(name) ==
    IF ~Truthy(name) THEN [status |-> "not_found", id |-> NoId, cands |-> {}]
    ELSE IF Cardinality(substring_matches(name)) = 1
    THEN [status |-> "ok", id |-> OnlyElement(substring_matches(name)), cands |-> {}]
    ELSE IF Cardinality(substring_matches(name)) > 1
    THEN [status |-> "ambiguous", id |-> NoId, cands |-> substring_matches(name)]
    ELSE [status |-> "not_found", id |-> NoId, cands |-> {}]

\* resolve, lines 193-224: the result of name matching
ResolveByName(name) ==
    IF ~Truthy(name) THEN [status |-> "not_found", id |-> NoId, cands |-> {}]
    ELSE IF Cardinality(exact_matches(name)) = 1
    THEN [status |-> "ok", id |-> OnlyElement(exact_matches(name)), cands |-> {}]
    ELSE IF Cardinality(exact_matches(name)) > 1
    THEN [status |-> "ambiguous", id |-> NoId, cands |-> exact_matches(name)]
    ELSE IF Cardinality(substring_matches(name)) = 1
    THEN [status |-> "ok", id |-> OnlyElement(substring_matches(name)), cands |-> {}]
    ELSE IF Cardinality(substring_matches(name)) > 1
    THEN [status |-> "ambiguous", id |-> NoId, cands |-> substring_matches(name)]
    ELSE [status |-> "not_found", id |-> NoId, cands |-> {}]

\* a resolve that looks at the email index before the phone index
ResolveResult_EmailFirst(phone, email, name) ==
    IF ResolveByEmail(email) # NoId
    THEN [status |-> "ok", id |-> ResolveByEmail(email), cands |-> {}]
    ELSE IF ResolveByPhone(phone) # NoId
    THEN [status |-> "ok", id |-> ResolveByPhone(phone), cands |-> {}]
    ELSE ResolveByName(name)

\* ContactCache.resolve: the result as status, contact id and candidate ids
ResolveResult(phone, email, name) ==
    IF ResolveByPhone(phone) # NoId
    THEN [status |-> "ok", id |-> ResolveByPhone(phone), cands |-> {}]
    ELSE IF ResolveByEmail(email) # NoId
    THEN [status |-> "ok", id |-> ResolveByEmail(email), cands |-> {}]
    ELSE ResolveByName(name)

resolve(phone, email, name) ==
    /\ ret' = LET r == ResolveResult(phone, email, name)
              IN  Ret("resolve", <<phone, email, name>>, r.id, r.status = "ok",
                      r.status, r.cands, NotSaved)
    /\ UNCHANGED <<contacts, phone_index, email_index, file, nextId>>

-----------------------------------------------------------------------------
(* The watch stream: imsg.watch_messages, an async generator, and the
   subprocess it starts.  The generator is suspended at an await or at its
   yield between two steps; a cancellation is delivered at such a point. *)

Streams == 1..MaxStreams

\* what a line of the subprocess's stdout can be: a JSON message record, a
\* line of whitespace, a line that is no JSON, and JSON that is no record
\* (json.loads succeeds, _parse_message raises)
LineKinds == {"message", "blank", "bad_json", "not_record"}

WatchInit ==
    /\ wpc = [s \in Streams |-> "new"]
    /\ whow = [s \in Streams |-> ""]
    /\ proc = [s \in Streams |-> "none"]
    /\ pipe = [s \in Streams |-> <<>>]
    /\ written = [s \in Streams |-> 0]
    /\ delivered = [s \in Streams |-> <<>>]

\* proc.returncode is None: the event loop has not seen the subprocess exit
returncode_is_None(s) == proc[s] # "reaped"

\* proc.terminate(): SIGTERM, which a process that already exited ignores;
\* a process blocked in a write dies of it like a running one
terminate(p) == IF p \in {"running", "blocked"} THEN "term_sent" ELSE p

\* a finally block that signals the subprocess of every stream, as it would
\* with one handle shared by the streams
Finally_SharedHandle(s, how) ==
    IF returncode_is_None(s)
    THEN /\ proc' = [t \in Streams |-> terminate(proc[t])]
         /\ wpc' = [wpc EXCEPT ![s] = "wait"]
         /\ whow' = [whow EXCEPT ![s] = how]
    ELSE /\ wpc' = [wpc EXCEPT ![s] = "closed"]
         /\ whow' = [whow EXCEPT ![s] = how]
         /\ UNCHANGED proc

\* watch_messages, lines 396-399, the finally block: entered on the way out
\* of the try block with the outcome how; it ends the stream at once when the
\* subprocess is known to have exited, and otherwise signals it and suspends
\* the generator in await proc.wait()
Finally(s, how) ==
    IF returncode_is_None(s)
    THEN /\ proc' = [proc EXCEPT ![s] = terminate(@)]
         /\ wpc' = [wpc EXCEPT ![s] = "wait"]
         /\ whow' = [whow EXCEPT ![s] = how]
    ELSE /\ wpc' = [wpc EXCEPT ![s] = "closed"]
         /\ whow' = [whow EXCEPT ![s] = how]
         /\ UNCHANGED proc

\* watch_messages, lines 353-375: the command is built and the subprocess
\* started; when the binary is missing create_subprocess_exec raises
\* FileNotFoundError before the try block is entered; nothing in
\* watch_messages catches it, and it leaves the generator as it is
StartWatch(s) ==
    /\ wpc[s] = "new"
    /\ \E exec \in {"started", "not_found"} :
        IF exec = "started"
        THEN /\ proc' = [proc EXCEPT ![s] = "running"]
             /\ wpc' = [wpc EXCEPT ![s] = "readline"]
             /\ UNCHANGED whow
        ELSE /\ wpc' = [wpc EXCEPT ![s] = "closed"]
             /\ whow' = [whow EXCEPT ![s] = "FileNotFoundError"]
             /\ UNCHANGED proc
    /\ UNCHANGED <<pipe, written, delivered>>
    /\ UNCHANGED nonWatchVars

\* the subprocess writes a line to its stdout
ProcWrite(s) ==
    /\ proc[s] = "running"
    /\ written[s] < MaxLines
    /\ \E kind \in LineKinds :
        pipe' = [pipe EXCEPT ![s] = Append(@, [kind |-> kind, n |-> written[s] + 1])]
    /\ written' = [written EXCEPT ![s] = @ + 1]
    /\ UNCHANGED <<wpc, whow, proc, delivered>>
    /\ UNCHANGED nonWatchVars

\* the subprocess exits, on its own or of the SIGTERM it was sent; its end
\* of the pipe is closed
ProcExit(s) ==
    /\ proc[s] \in {"running", "term_sent"}
    /\ proc' = [proc EXCEPT ![s] = "exited"]
    /\ UNCHANGED <<wpc, whow, pipe, written, delivered>>
    /\ UNCHANGED nonWatchVars

\* the event loop sees that the subprocess exited and sets proc.returncode
ChildWatcher(s) ==
    /\ proc[s] = "exited"
    /\ proc' = [proc EXCEPT ![s] = "reaped"]
    /\ UNCHANGED <<wpc, whow, pipe, written, delivered>>
    /\ UNCHANGED nonWatchVars

\* watch_messages, lines 378-394: await proc.stdout.readline() returns a line
\* or, at the end of the output, b""; one pass of the loop body
ReadLine(s) ==
    /\ wpc[s] = "readline"
    /\ IF pipe[s] # <<>>
       THEN LET line == Head(pipe[s])
            IN  /\ pipe' = [pipe EXCEPT ![s] = Tail(@)]
                /\ CASE line.kind = "message" ->
                            /\ delivered' = [delivered EXCEPT ![s] = Append(@, line.n)]
                            /\ wpc' = [wpc EXCEPT ![s] = "yield"]
                            /\ UNCHANGED <<whow, proc>>
                     [] line.kind \in {"blank", "bad_json"} ->
                            UNCHANGED <<wpc, whow, proc, delivered>>
                     [] OTHER ->
                            /\ Finally(s, "raised")
                            /\ UNCHANGED delivered
       ELSE /\ proc[s] \in {"exited", "reaped"}
            /\ Finally(s, "returned")
            /\ UNCHANGED <<pipe, delivered>>
    /\ UNCHANGED written
    /\ UNCHANGED nonWatchVars

\* the consumer asks for the next message: the generator resumes after its
\* yield
Resume(s) ==
    /\ wpc[s] = "yield"
    /\ wpc' = [wpc EXCEPT ![s] = "readline"]
    /\ UNCHANGED <<whow, proc, pipe, written, delivered>>
    /\ UNCHANGED nonWatchVars

\* the caller cancels: CancelledError is raised at the await the generator
\* is suspended in (readline, or proc.wait() of the finally block), or the
\* generator is closed at its yield (GeneratorExit).  In the try block the
\* exception enters the finally block; in the finally block it leaves the
\* generator.
Cancel(s) ==
    /\ wpc[s] \in {"readline", "yield", "wait"}
    /\ IF wpc[s] = "wait"
       THEN /\ wpc' = [wpc EXCEPT ![s] = "closed"]
            /\ whow' = [whow EXCEPT ![s] = "cancelled"]
            /\ UNCHANGED proc
       ELSE Finally(s, "cancelled")
    /\ UNCHANGED <<pipe, written, delivered>>
    /\ UNCHANGED nonWatchVars

\* watch_messages, line 399: await proc.wait() returns once the event loop
\* has seen the subprocess exit; the generator finishes
WaitDone(s) ==
    /\ wpc[s] = "wait"
    /\ proc[s] = "reaped"
    /\ wpc' = [wpc EXCEPT ![s] = "closed"]
    /\ UNCHANGED <<whow, proc, pipe, written, delivered>>
    /\ UNCHANGED nonWatchVars

\* no subprocess has written to its stderr
StallInit == errpipe = [s \in Streams |-> 0]

\* watch_messages, lines 371-375: stderr=asyncio.subprocess.PIPE, and no
\* line of watch_messages reads proc.stderr.  The event loop moves what the
\* subprocess writes into the buffer of proc.stderr until that holds twice
\* its limit and then stops reading the pipe; the pipe of the operating
\* system takes what its buffer holds.  StderrCapacity chunks fit in both.
StderrRoom(pending) == pending < StderrCapacity

\* the subprocess writes a chunk to its stderr: the chunk goes into the pipe
\* when there is room, and otherwise the write blocks the subprocess
ProcWriteErr(s) ==
    /\ proc[s] = "running"
    /\ IF StderrRoom(errpipe[s])
       THEN /\ errpipe' = [errpipe EXCEPT ![s] = @ + 1]
            /\ UNCHANGED proc
       ELSE /\ proc' = [proc EXCEPT ![s] = "blocked"]
            /\ UNCHANGED errpipe
    /\ UNCHANGED <<wpc, whow, pipe, written, delivered>>
    /\ UNCHANGED nonStallVars

-----------------------------------------------------------------------------
(* The text of a Message: _clean_text and filter_pii, as _parse_message
   (structured history, watch) and _parse_text_message (fast text search)
   apply them.  The seven code points of _STRIP_CHARS are written by their
   names, each one character of a string. *)

_STRIP_CHARS ==
    {"U+0000", "U+FFFC", "U+FFFD", "U+200B", "U+200C", "U+200D", "U+FEFF"}

Kept(c) == c \notin _STRIP_CHARS

\* str.translate(str.maketrans("", "", _STRIP_CHARS))
translate(text) == SelectSeq(text, Kept)

\* _clean_text
_clean_text(text) == IF ~Truthy(text) THEN <<>> ELSE Strip(translate(text))

\* \w of a regular expression, on the characters of the texts below
IsWordChar(c) == IsDigit(c) \/ c \in {"x", "_"}

\* \b between the characters i - 1 and i of s
WordBoundary(s, i) ==
    (i - 1 \in 1..Len(s) /\ IsWordChar(s[i - 1]))
        # (i \in 1..Len(s) /\ IsWordChar(s[i]))

\* the pattern \b\d{3}-\d{2}-\d{4}\b matches s at position i
MatchesSSNAt(s, i) ==
    /\ i >= 1 /\ i + 10 <= Len(s)
    /\ \A k \in {0, 1, 2, 4, 5, 7, 8, 9, 10} : IsDigit(s[i + k])
    /\ s[i + 3] = "-" /\ s[i + 6] = "-"
    /\ WordBoundary(s, i) /\ WordBoundary(s, i + 11)

REDACTED_SSN ==
    <<"[", "R", "E", "D", "A", "C", "T", "E", "D", "-", "S", "S", "N", "]">>

\* pattern.sub(replacement, s) of the ssn pattern, from position i on: the
\* matches are taken from left to right and do not overlap
RECURSIVE SubSSN(_, _)
SubSSN(s, i) ==
    IF i > Len(s) THEN <<>>
    ELSE IF MatchesSSNAt(s, i) THEN REDACTED_SSN \o SubSSN(s, i + 11)
    ELSE <<s[i]>> \o SubSSN(s, i + 1)

\* _filter_regex: the six patterns in turn.  In the texts below only the ssn
\* pattern can match: credit_card needs 13 digits, and bank_account,
\* routing_number, password and api_key each need a keyword (account, acct,
\* routing, aba, password, passwd, pwd, pin, passcode, api key, token,
\* secret, bearer), before or after the ssn replacement.
_filter_regex(text) == SubSSN(text, 1)

\* filter_pii
filter_pii(text) ==
    IF text = None THEN None
    ELSE IF pii_filter = "" THEN text
    ELSE IF pii_filter = "regex" THEN _filter_regex(text)
    ELSE text

\* a text that is filtered before it is cleaned
MessageText_FilterFirst(raw_text) ==
    IF Truthy(raw_text) THEN _clean_text(filter_pii(raw_text))
    ELSE filter_pii(raw_text)

\* _parse_message, lines 240-241: the text of the Message
MessageText(raw_text) ==
    IF Truthy(raw_text) THEN filter_pii(_clean_text(raw_text))
    ELSE filter_pii(raw_text)

\* the beginning of a line of imsg history without --json: timestamp,
\* direction and sender, as _TEXT_LINE_PATTERN splits it
LinePrefix == <<"2024-01-01T00:00:00Z", " ", "[recv]", " ", "x", ":">>

\* _TEXT_LINE_PATTERN: group 4 of the match, the rest of the line after the
\* colon and the whitespace that follows it; None when the line does not match
TextOfLine(line) ==
    IF Len(line) >= Len(LinePrefix) /\ SubSeq(line, 1, Len(LinePrefix)) = LinePrefix
    THEN LStrip(SubSeq(line, Len(LinePrefix) + 1, Len(line)))
    ELSE None

\* _parse_text_message, line 583: the text of the Message
TextMessageText(text) == filter_pii(_clean_text(text))

\* the social security number 123-45-6789
SSN == <<"1", "2", "3", "-", "4", "5", "-", "6", "7", "8", "9">>

InsertAt(s, i, c) == SubSeq(s, 1, i) \o <<c>> \o SubSeq(s, i + 1, Len(s))

\* where an invisible character is put: before the number, after "123-",
\* after the number
InsertPositions == {0, 4, Len(SSN)}

\* the raw texts: the number as it is or with one invisible character in
\* it, after nothing, a space, "x" or "x ", before nothing or a space; and
\* some texts without a number
RawTexts ==
    {pre \o body \o post :
        pre \in {<<>>, <<" ">>, <<"x">>, <<"x", " ">>},
        body \in {SSN} \cup {InsertAt(SSN, i, c) :
                                i \in InsertPositions, c \in _STRIP_CHARS},
        post \in {<<>>, <<" ">>}}
    \cup {<<>>, <<" ">>, <<"x">>, <<"U+FEFF">>, <<" ", "U+FFFC", "x", " ">>}

Queries == {<<"1">>, <<"X">>, <<"s", "s", "n">>}

NoMessage == [path |-> "none", raw |-> None, text |-> None]

TextInit ==
    /\ pii_filter = "regex"
    /\ message = NoMessage

\* any setting of MAG_PII_FILTER: regex, disabled, or a mode the code does
\* not know
TextConfigured ==
    /\ pii_filter \in {"regex", "", "presidio"}
    /\ message = NoMessage

\* get_messages: a record of imsg history --json becomes a Message
HistoryMessage ==
    /\ \E raw_text \in RawTexts \cup {None} :
        message' = [path |-> "history", raw |-> raw_text,
                    text |-> MessageText(raw_text)]
    /\ UNCHANGED <<pii_filter, nonTextVars>>

\* watch_messages: a line of imsg watch --json becomes a Message
WatchMessage ==
    /\ \E raw_text \in RawTexts \cup {None} :
        message' = [path |-> "watch", raw |-> raw_text,
                    text |-> MessageText(raw_text)]
    /\ UNCHANGED <<pii_filter, nonTextVars>>

\* search_messages_fast, lines 634-648: a line of imsg history becomes a
\* Message of the result when the query is in the line and in its text
SearchMessage ==
    /\ \E raw_text \in RawTexts : \E query \in Queries :
        LET line == Strip(LinePrefix \o raw_text)
            text == TextOfLine(line)
        IN  /\ line # <<>> /\ line[1] # "("
            /\ Contains(Lower(line), Lower(query))
            /\ text # None
            /\ Truthy(TextMessageText(text))
            /\ Contains(Lower(TextMessageText(text)), Lower(query))
            /\ message' = [path |-> "search", raw |-> text,
                           text |-> TextMessageText(text)]
    /\ UNCHANGED <<pii_filter, nonTextVars>>

-----------------------------------------------------------------------------
(* Sending: the handlers send_message and reply_to_thread of
   routers/messages.py with send_message_v2 and reply_to_thread of
   services/imsg.py.  What imsg reports about a thread is the state of the
   Messages database, which changes as messages arrive. *)

\* two recipients, the phone numbers "+1" and "+2"
Recipients == {<<"+", "1">>, <<"+", "2">>}

Threads == 1..MaxThreads

\* the thread_id of a reply: 0 stands for a missing or zero thread_id, and
\* MaxThreads + 1 is a thread imsg does not know
ThreadIds == 0..(MaxThreads + 1)

\* a message of the history, as far as reply_to_thread looks at it
HistoryMessages == [is_from_me : BOOLEAN, sender : {None} \cup Recipients]

\* the outcomes of the imsg calls of one request: all of them succeed, or
\* the first one that fails is history --json, chats --json or send
SendOutcomes == {"ok", "send_failed"}

ReplyOutcomes == {"ok", "history_failed", "chats_failed", "send_failed"}

NoResponse == [op |-> "none", status |-> 0, ok |-> FALSE, to |-> None]

\* the settings of a gateway without allowlist, and a thread without
\* messages and participants
SendInit ==
    /\ allowlist = {}
    /\ allow_unknown_recipients = TRUE
    /\ threads = [t \in Threads |-> [messages |-> <<>>, participants |-> <<>>]]
    /\ handed = {}
    /\ resp = NoResponse

\* any allowlist, either setting of allow_unknown_recipients, any
\* participant of the thread
SendConfigured ==
    /\ allowlist \in SUBSET Recipients
    /\ allow_unknown_recipients \in BOOLEAN
    /\ threads \in [Threads -> [messages : {<<>>},
                                 participants : ListsUpTo(Recipients, 1)]]
    /\ handed = {}
    /\ resp = NoResponse

\* an HTTPException raised by the handler before anything is sent
Rejected(op, status, to) ==
    /\ resp' = [op |-> op, status |-> status, ok |-> FALSE, to |-> to]
    /\ UNCHANGED handed

\* imsg.send_message_v2: with dry_run the command is only returned;
\* otherwise imsg send --to <to> is run, and its failure is reported with
\* ok = false
send_message_v2(op, to, dry_run, cli) ==
    IF dry_run
    THEN /\ resp' = [op |-> op, status |-> 201, ok |-> TRUE, to |-> to]
         /\ UNCHANGED handed
    ELSE /\ handed' = handed \cup {to}
         /\ resp' = [op |-> op, status |-> 201, ok |-> (cli # "send_failed"),
                     to |-> to]

\* the handler send_message of routers/messages.py
send_message(to, dry_run, cli) ==
    /\ IF allowlist # {} /\ to \notin allowlist
       THEN Rejected("send", 403, to)
       ELSE IF ~allow_unknown_recipients
               /\ ResolveResult(to, to, None).status = "not_found"
       THEN Rejected("send", 403, to)
       ELSE send_message_v2("send", to, dry_run, cli)
    /\ UNCHANGED <<allowlist, allow_unknown_recipients, threads>>

\* get_messages(thread_id, limit=10): the history of the thread, oldest
\* first; nothing for a thread imsg does not know
get_messages(thread_id) ==
    IF thread_id \in Threads THEN threads[thread_id].messages ELSE <<>>

\* imsg.reply_to_thread, lines 492-497: the sender of the last inbound
\* message that has one, None when there is none
RECURSIVE LastInboundSender(_)
LastInboundSender(messages) ==
    IF messages = <<>> THEN None
    ELSE LET msg == messages[Len(messages)]
         IN  IF ~msg.is_from_me /\ Truthy(msg.sender) THEN msg.sender
             ELSE LastInboundSender(SubSeq(messages, 1, Len(messages) - 1))

\* imsg.reply_to_thread, lines 499-503: the handle of the first participant
\* of the thread, None when imsg does not know the thread or it has none
FirstParticipant(thread_id) ==
    IF thread_id \in Threads /\ threads[thread_id].participants # <<>>
    THEN threads[thread_id].participants[1]
    ELSE None

\* imsg.reply_to_thread of services/imsg.py, called by the handler
imsg_reply_to_thread(thread_id, recipient, cli) ==
    IF Truthy(recipient)
    THEN send_message_v2("reply", recipient, FALSE, cli)
    ELSE IF thread_id = 0
    THEN /\ resp' = [op |-> "reply", status |-> 201, ok |-> FALSE, to |-> None]
         /\ UNCHANGED handed
    ELSE IF cli = "history_failed"
    THEN Rejected("reply", 500, None)
    ELSE LET sender == LastInboundSender(get_messages(thread_id))
         IN  IF Truthy(sender)
             THEN send_message_v2("reply", sender, FALSE, cli)
             ELSE IF cli = "chats_failed"
             THEN Rejected("reply", 500, None)
             ELSE IF Truthy(FirstParticipant(thread_id))
             THEN send_message_v2("reply", FirstParticipant(thread_id), FALSE, cli)
             ELSE /\ resp' = [op |-> "reply", status |-> 201, ok |-> FALSE,
                              to |-> None]
                  /\ UNCHANGED handed

\* the handler reply_to_thread of routers/messages.py
reply_to_thread(thread_id, recipient, cli) ==
    /\ IF thread_id = 0 /\ ~Truthy(recipient)
       THEN Rejected("reply", 400, None)
       ELSE IF allowlist # {} /\ Truthy(recipient) /\ recipient \notin allowlist
       THEN Rejected("reply", 403, recipient)
       ELSE imsg_reply_to_thread(thread_id, recipient, cli)
    /\ UNCHANGED <<allowlist, allow_unknown_recipients, threads>>

\* POST /send
SendMessage ==
    /\ \E to \in Recipients : \E dry_run \in BOOLEAN : \E cli \in SendOutcomes :
        send_message(to, dry_run, cli)
    /\ UNCHANGED nonSendVars

\* POST /reply
ReplyToThread ==
    /\ \E thread_id \in ThreadIds :
        \E recipient \in {None, <<>>} \cup Recipients :
        \E cli \in ReplyOutcomes :
            reply_to_thread(thread_id, recipient, cli)
    /\ UNCHANGED nonSendVars

\* a message is sent or received in a thread of the Messages database
MessageArrives ==
    /\ \E t \in Threads : \E msg \in HistoryMessages :
        /\ Len(threads[t].messages) < MaxHistory
        /\ threads' = [threads EXCEPT ![t].messages = Append(@, msg)]
    /\ UNCHANGED <<allowlist, allow_unknown_recipients, handed, resp>>
    /\ UNCHANGED nonSendVars

\* POST /contacts/upsert for a recipient
UpsertRecipient ==
    /\ \E to \in Recipients :
        upsert([name |-> None, phones |-> <<to>>, emails |-> <<>>,
                aliases |-> <<>>], "ok", MaxKnown)
    /\ UNCHANGED nonCacheVars

-----------------------------------------------------------------------------
(* Concurrent requests on the contact cache.  The handlers of the contacts
   endpoints are coroutines of one event loop; the event loop runs a handler
   until it awaits or returns, and only then another one.  Here the methods
   of the cache are taken statement by statement. *)

Requests == 1..MaxRequests

\* a handler that hands the file write to a thread and awaits it
AwaitPoints_BeforeSave == {"save"}

\* the statements of a handler before which it awaits: upsert_contact,
\* resolve_contact and delete_contact call the cache without await, and no
\* method of ContactCache is a coroutine
AwaitPoints == {}

NoReq == 0

IdleRequest ==
    [op |-> "none", data |-> NoArgs, id |-> NoId, query |-> NoArgs,
     pc |-> "idle", existing_id |-> NoId, contact |-> NoArgs,
     result |-> "", sawBusy |-> FALSE]

ConcInit ==
    /\ running = NoReq
    /\ req = [r \in Requests |-> IdleRequest]

\* the handler of r has started and not returned
Busy(r) == req[r].pc \notin {"idle", "ready", "done"}

\* some other handler has started and not returned
OtherBusy(r) == \E r2 \in Requests \ {r} : Busy(r2)

\* the event loop can run the next statement of r: it is running r, or it
\* is running nothing and r has work to do
OnLoop(r) ==
    /\ req[r].pc \notin {"idle", "done"}
    /\ running = r \/ running = NoReq

\* whom the event loop runs after a statement of r that leads to pc
After(r, pc) == IF pc = "done" \/ pc \in AwaitPoints THEN NoReq ELSE r

ConcInputs ==
    [name : {None},
     phones : ListsUpTo({<<"1", "-">>}, 1),
     emails : ListsUpTo({<<"A">>}, 1),
     aliases : {<<>>}]

ConcQueries == {<<(<<"1">>), None, None>>, <<None, (<<"a">>), None>>}

\* a request arrives and its handler is scheduled on the event loop
Arrive(r) ==
    /\ req[r].pc = "idle"
    /\ \/ \E data \in ConcInputs :
            req' = [req EXCEPT ![r] = [@ EXCEPT !.op = "upsert", !.data = data,
                                                !.pc = "ready"]]
       \/ \E id \in 1..MaxRequests :
            req' = [req EXCEPT ![r] = [@ EXCEPT !.op = "delete", !.id = id,
                                                !.pc = "ready"]]
       \/ req' = [req EXCEPT ![r] = [@ EXCEPT !.op = "clear", !.pc = "ready"]]
       \/ \E q \in ConcQueries :
            req' = [req EXCEPT ![r] = [@ EXCEPT !.op = "resolve", !.query = q,
                                                !.pc = "ready"]]
    /\ UNCHANGED <<running, cacheVars, nonConcVars>>

\* the handler starts: _require_capability, get_contact_cache, and the call
\* of the method of the cache
HandlerStart(r) ==
    /\ OnLoop(r)
    /\ req[r].pc = "ready"
    /\ LET pc == CASE req[r].op = "upsert" -> "lookup"
                    [] req[r].op = "delete" -> "pop"
                    [] req[r].op = "clear" -> "clear_contacts"
                    [] OTHER -> "resolve"
       IN  /\ req' = [req EXCEPT ![r].pc = pc]
           /\ running' = After(r, pc)
    /\ UNCHANGED <<cacheVars, nonConcVars>>

\* upsert, lines 113-128: the indices are read
UpsertLookup(r) ==
    /\ OnLoop(r)
    /\ req[r].pc = "lookup"
    /\ LET existing_id == ExistingId(req[r].data)
           pc == IF existing_id # NoId /\ existing_id \in DOMAIN contacts
                 THEN "unindex" ELSE "create"
       IN  /\ req' = [req EXCEPT ![r] = [@ EXCEPT !.existing_id = existing_id,
                                                  !.sawBusy = OtherBusy(r),
                                                  !.pc = pc]]
           /\ running' = After(r, pc)
    /\ UNCHANGED <<cacheVars, nonConcVars>>

\* upsert, lines 130-131
UpsertUnindex(r) ==
    /\ OnLoop(r)
    /\ req[r].pc = "unindex"
    /\ LET idx == _unindex_contact(Indices, contacts[req[r].existing_id])
       IN  /\ phone_index' = idx.phone
           /\ email_index' = idx.email
    /\ req' = [req EXCEPT ![r].pc = "merge"]
    /\ running' = After(r, "merge")
    /\ UNCHANGED <<contacts, file, nextId, ret, nonConcVars>>

\* upsert, lines 133-138
UpsertMerge(r) ==
    /\ OnLoop(r)
    /\ req[r].pc = "merge"
    /\ contacts' = [contacts EXCEPT ![req[r].existing_id] =
                        MergeContact(@, req[r].data)]
    /\ req' = [req EXCEPT ![r] = [@ EXCEPT !.id = req[r].existing_id,
                                          !.pc = "index"]]
    /\ running' = After(r, "index")
    /\ UNCHANGED <<phone_index, email_index, file, nextId, ret, nonConcVars>>

\* upsert, lines 140-147
UpsertCreate(r) ==
    /\ OnLoop(r)
    /\ req[r].pc = "create"
    /\ contacts' = [i \in (DOMAIN contacts) \cup {nextId + 1} |->
                        IF i = nextId + 1 THEN NewContact(nextId + 1, req[r].data)
                        ELSE contacts[i]]
    /\ nextId' = nextId + 1
    /\ req' = [req EXCEPT ![r] = [@ EXCEPT !.id = nextId + 1, !.pc = "index"]]
    /\ running' = After(r, "index")
    /\ UNCHANGED <<phone_index, email_index, file, ret, nonConcVars>>

\* upsert, line 149
UpsertIndex(r) ==
    /\ OnLoop(r)
    /\ req[r].pc = "index"
    /\ LET idx == _index_contact(Indices, contacts[req[r].id])
       IN  /\ phone_index' = idx.phone
           /\ email_index' = idx.email
    /\ req' = [req EXCEPT ![r].pc = "save"]
    /\ running' = After(r, "save")
    /\ UNCHANGED <<contacts, file, nextId, ret, nonConcVars>>

\* delete, line 276: self._contacts.pop(contact_id, None)
DeletePop(r) ==
    /\ OnLoop(r)
    /\ req[r].pc = "pop"
    /\ IF req[r].id \in DOMAIN contacts
       THEN /\ contacts' = [i \in (DOMAIN contacts) \ {req[r].id} |-> contacts[i]]
            /\ req' = [req EXCEPT ![r] = [@ EXCEPT !.contact = <<contacts[req[r].id]>>,
                                                  !.pc = "unindex_deleted"]]
            /\ running' = After(r, "unindex_deleted")
       ELSE /\ req' = [req EXCEPT ![r] = [@ EXCEPT !.result = "false",
                                                  !.pc = "done"]]
            /\ running' = After(r, "done")
            /\ UNCHANGED contacts
    /\ UNCHANGED <<phone_index, email_index, file, nextId, ret, nonConcVars>>

\* delete, line 277
DeleteUnindexDeleted(r) ==
    /\ OnLoop(r)
    /\ req[r].pc = "unindex_deleted"
    /\ LET idx == DeleteUnindex(Indices, req[r].contact[1])
       IN  /\ phone_index' = idx.phone
           /\ email_index' = idx.email
    /\ req' = [req EXCEPT ![r].pc = "save"]
    /\ running' = After(r, "save")
    /\ UNCHANGED <<contacts, file, nextId, ret, nonConcVars>>

\* clear, line 288
ClearContacts(r) ==
    /\ OnLoop(r)
    /\ req[r].pc = "clear_contacts"
    /\ contacts' = EmptyMap
    /\ req' = [req EXCEPT ![r].pc = "clear_phone_index"]
    /\ running' = After(r, "clear_phone_index")
    /\ UNCHANGED <<phone_index, email_index, file, nextId, ret, nonConcVars>>

\* clear, line 289
ClearPhoneIndex(r) ==
    /\ OnLoop(r)
    /\ req[r].pc = "clear_phone_index"
    /\ phone_index' = EmptyMap
    /\ req' = [req EXCEPT ![r].pc = "clear_email_index"]
    /\ running' = After(r, "clear_email_index")
    /\ UNCHANGED <<contacts, email_index, file, nextId, ret, nonConcVars>>

\* clear, line 290
ClearEmailIndex(r) ==
    /\ OnLoop(r)
    /\ req[r].pc = "clear_email_index"
    /\ email_index' = EmptyMap
    /\ req' = [req EXCEPT ![r].pc = "save"]
    /\ running' = After(r, "save")
    /\ UNCHANGED <<contacts, phone_index, file, nextId, ret, nonConcVars>>

\* upsert, lines 150-151, delete, lines 278-279, clear, line 291:
\* self._save() and the return
SaveAndReturn(r) ==
    /\ OnLoop(r)
    /\ req[r].pc = "save"
    /\ file' = _save(contacts, "ok")
    /\ req' = [req EXCEPT ![r] = [@ EXCEPT !.result = "true", !.pc = "done"]]
    /\ running' = After(r, "done")
    /\ UNCHANGED <<contacts, phone_index, email_index, nextId, ret, nonConcVars>>

\* resolve: the indices and the contacts are read
ResolveRead(r) ==
    /\ OnLoop(r)
    /\ req[r].pc = "resolve"
    /\ LET q == req[r].query
       IN  req' = [req EXCEPT ![r] =
                    [@ EXCEPT !.result = ResolveResult(q[1], q[2], q[3]).status,
                              !.id = ResolveResult(q[1], q[2], q[3]).id,
                              !.sawBusy = OtherBusy(r),
                              !.pc = "done"]]
    /\ running' = After(r, "done")
    /\ UNCHANGED <<cacheVars, nonConcVars>>

-----------------------------------------------------------------------------
(* The CLI adapters: _run_imsg, _run_imsg_raw and _run_remindctl.  Each call
   starts one subprocess, waits for its output under a timeout, and turns
   the exit code and the output into a result or into an error. *)

Callers == 1..MaxCallers

Tools == {"imsg", "imsg_raw", "remindctl"}

\* str.split(sep)
RECURSIVE Split(_, _)
Split(s, sep) ==
    IF \A i \in 1..Len(s) : s[i] # sep
    THEN <<s>>
    ELSE LET i == CHOOSE k \in 1..Len(s) :
                    s[k] = sep /\ \A j \in 1..(k - 1) : s[j] # sep
         IN  <<SubSeq(s, 1, i - 1)>> \o Split(SubSeq(s, i + 1, Len(s)), sep)

\* json.loads, on the texts the subprocesses of the model write: a digit is
\* a number, {d} is an object (named by its digit d), [v,...,v] is an array
\* of numbers and objects; every other text raises JSONDecodeError
JsonValue(type, id, items) == [type |-> type, id |-> id, items |-> items]

IsJsonAtom(t) ==
    \/ Len(t) = 1 /\ IsDigit(t[1])
    \/ Len(t) = 3 /\ t[1] = "{" /\ IsDigit(t[2]) /\ t[3] = "}"

JsonAtom(t) ==
    IF Len(t) = 1 THEN JsonValue("int", t[1], <<>>)
                  ELSE JsonValue("dict", t[2], <<>>)

JsonElements(t) ==
    IF Len(t) = 2 THEN <<>> ELSE Split(SubSeq(t, 2, Len(t) - 1), ",")

IsJsonArray(t) ==
    /\ Len(t) >= 2
    /\ t[1] = "[" /\ t[Len(t)] = "]"
    /\ \A e \in Range(JsonElements(t)) : IsJsonAtom(e)

JSONDecodeError(text) ==
    LET t == Strip(text) IN ~(IsJsonAtom(t) \/ IsJsonArray(t))

json_loads(text) ==
    LET t == Strip(text)
    IN  IF IsJsonAtom(t)
        THEN JsonAtom(t)
        ELSE JsonValue("list", "",
                       [i \in 1..Len(JsonElements(t)) |-> JsonAtom(JsonElements(t)[i])])

\* a loop that gives up at the first line that is no JSON
RECURSIVE ParseLines_StopAtInvalid(_)
ParseLines_StopAtInvalid(lines) ==
    IF lines = <<>>
    THEN <<>>
    ELSE LET line == Strip(Head(lines))
         IN  IF line = <<>>
             THEN ParseLines_StopAtInvalid(Tail(lines))
             ELSE IF JSONDecodeError(line)
             THEN <<>>
             ELSE LET obj == json_loads(line)
                      rest == ParseLines_StopAtInvalid(Tail(lines))
                  IN  CASE obj.type = "dict" -> <<obj>> \o rest
                        [] obj.type = "list" -> obj.items \o rest
                        [] OTHER -> rest

\* _run_imsg, lines 107-123: the loop over the lines of the output
RECURSIVE ParseLines(_)
ParseLines(lines) ==
    IF lines = <<>>
    THEN <<>>
    ELSE LET line == Strip(Head(lines))
             rest == ParseLines(Tail(lines))
         IN  IF line = <<>> \/ JSONDecodeError(line)
             THEN rest
             ELSE LET obj == json_loads(line)
                  IN  CASE obj.type = "dict" -> <<obj>> \o rest
                        [] obj.type = "list" -> obj.items \o rest
                        [] OTHER -> rest

\* _run_imsg, lines 107-123: the records of the NDJSON output
ParseNDJSON(stdout_str) == ParseLines(Split(Strip(stdout_str), "\n"))

\* ImsgError.to_dict keeps this many characters of the diagnostic text
StderrLimit == 500

\* a diagnostic text longer than StderrLimit
LongText == [i \in 1..(StderrLimit + 1) |-> "e"]

\* what a subprocess writes to its standard output: nothing, an error text,
\* JSON, a long text
Stdouts == {<<>>, <<"o", "\n">>, <<"[", "{", "1", "}", "]", "\n">>, LongText}

\* what a subprocess writes to its standard error
Stderrs == {<<>>, <<"E", "\n">>, LongText}

ExitCodes == {0, 1}

NoResult == [kind |-> "none", code |-> 0, stderr |-> <<>>, value |-> <<>>]

IdleCall ==
    [tool |-> "none", allow_empty |-> FALSE, pc |-> "idle", spawned |-> 0,
     proc |-> "none", returncode |-> 0, stdout |-> <<>>, stderr |-> <<>>,
     result |-> NoResult]

AdapterInit == call = [c \in Callers |-> IdleCall]

\* ImsgError and RemindctlError: kind stands for the message
\* ("ToolNotFound": "... not found. Install with: brew install ...",
\*  "Timeout": "... timed out after 30 seconds",
\*  "ToolFailed": "... failed with exit code N",
\*  "NoOutput": "No output from remindctl",
\*  "ParseFailed": "Failed to parse remindctl output: ...")
Raised(kind, code, stderr) ==
    [kind |-> kind, code |-> code, stderr |-> stderr, value |-> <<>>]

\* the call returns value
Returned(value) == [kind |-> "ok", code |-> 0, stderr |-> <<>>, value |-> value]

\* proc.returncode or -1
ReturncodeOr(returncode) == IF returncode # 0 THEN returncode ELSE -1

\* _run_imsg, lines 93-123, after the subprocess has exited
_run_imsg(returncode, stdout_str, stderr_str) ==
    IF returncode # 0
    THEN Raised("ToolFailed", ReturncodeOr(returncode), Strip(stderr_str))
    ELSE Returned(ParseNDJSON(stdout_str))

\* _run_imsg_raw, lines 156-169, after the subprocess has exited
_run_imsg_raw(returncode, stdout_str, stderr_str) ==
    IF returncode # 0
    THEN LET error_output == IF Strip(stderr_str) # <<>>
                             THEN Strip(stderr_str) ELSE Strip(stdout_str)
         IN  Raised("ToolFailed", ReturncodeOr(returncode), error_output)
    ELSE Returned(stdout_str)

\* _run_remindctl, lines 77-100, after the subprocess has exited
_run_remindctl(allow_empty, returncode, stdout, stderr) ==
    IF returncode # 0
    THEN Raised("ToolFailed", returncode, Strip(stderr))
    ELSE IF Strip(stdout) = <<>>
    THEN IF allow_empty THEN Returned(None) ELSE Raised("NoOutput", 0, <<>>)
    ELSE IF JSONDecodeError(stdout)
    THEN Raised("ParseFailed", 0, stdout)
    ELSE Returned(<<json_loads(stdout)>>)

\* what the call of c makes of the exit code and the output
Completed(c) ==
    LET k == call[c]
    IN  CASE k.tool = "imsg" -> _run_imsg(k.returncode, k.stdout, k.stderr)
          [] k.tool = "imsg_raw" -> _run_imsg_raw(k.returncode, k.stdout, k.stderr)
          [] OTHER -> _run_remindctl(k.allow_empty, k.returncode, k.stdout, k.stderr)

\* subprocess.run blocks the thread of the event loop until the subprocess
\* has exited; asyncio.create_subprocess_exec, wait_for and proc.wait are
\* awaited, and the event loop runs other handlers meanwhile
Blocking(tool) == tool = "remindctl"

\* the event loop can run the next step of the call of c
CanRun(c) == running = NoReq \/ running = c

\* whom the event loop runs after a step of c that leads to pc
Holding(c, tool, pc) == IF Blocking(tool) /\ pc # "done" THEN c ELSE NoReq

\* the messages of ImsgError, lines 80, 90 and 98
IMSG_NOT_FOUND ==
    <<"i", "m", "s", "g", " ", "n", "o", "t", " ", "f", "o", "u",
      "n", "d", ".", " ", "I", "n", "s", "t", "a", "l", "l", " ",
      "w", "i", "t", "h", ":", " ", "b", "r", "e", "w", " ", "i",
      "n", "s", "t", "a", "l", "l", " ", "s", "t", "e", "i", "p",
      "e", "t", "e", "/", "t", "a", "p", "/", "i", "m", "s", "g">>

IMSG_TIMED_OUT ==
    <<"i", "m", "s", "g", " ", "t", "i", "m", "e", "d", " ", "o",
      "u", "t", " ", "a", "f", "t", "e", "r", " ", "3", "0", ".",
      "0", " ", "s", "e", "c", "o", "n", "d", "s">>

IMSG_FAILED ==
    <<"i", "m", "s", "g", " ", "f", "a", "i", "l", "e", "d", " ",
      "w", "i", "t", "h", " ", "e", "x", "i", "t", " ", "c", "o",
      "d", "e", " ">>

\* e.message of the ImsgError a call of _run_imsg or _run_imsg_raw raised
ImsgMessage(result) ==
    CASE result.kind = "ToolNotFound" -> IMSG_NOT_FOUND
      [] result.kind = "Timeout" -> IMSG_TIMED_OUT
      [] OTHER -> IMSG_FAILED \o <<ToString(result.code)>>

\* text[:n]
Prefix(text, n) == IF Len(text) <= n THEN text ELSE SubSeq(text, 1, n)

\* ImsgError.to_dict, lines 36-55: the stderr entry of the dictionary
\* (there is none when stderr is empty)
ImsgError_to_dict(result) == Prefix(result.stderr, StderrLimit)

\* RemindctlError.to_dict, lines 54-56: the stderr entry of the dictionary
RemindctlError_to_dict(result) == result.stderr

\* send_message_v2, lines 459-463: the error field of the response to a
\* send whose call of _run_imsg_raw raised
SendResponseError(result) ==
    IF result.stderr # <<>>
    THEN ImsgMessage(result) \o <<":", " ">> \o result.stderr
    ELSE ImsgMessage(result)

\* the diagnostic text handed to the caller of the call of c that failed:
\* the dictionary of the error; the calls of the raw mode stand for those
\* of send_message_v2, with the error field of its response
DiagnosticHanded(c) ==
    CASE call[c].tool = "remindctl" -> RemindctlError_to_dict(call[c].result)
      [] call[c].tool = "imsg_raw" -> SendResponseError(call[c].result)
      [] OTHER -> ImsgError_to_dict(call[c].result)

nonAdapterVars == <<cacheVars, watchVars, req, sendVars, textVars, lookupVars, validateVars, parseVars, searchVars, linkVars, findVars, aliasVars, showVars, stallVars>>

\* a service function calls an adapter
CallAdapter(c) ==
    /\ call[c].pc = "idle"
    /\ \E tool \in Tools, allow_empty \in BOOLEAN :
        /\ allow_empty => tool = "remindctl"
        /\ call' = [call EXCEPT ![c] = [@ EXCEPT !.tool = tool,
                                                 !.allow_empty = allow_empty,
                                                 !.pc = "exec"]]
    /\ UNCHANGED <<running, nonAdapterVars>>

\* asyncio.create_subprocess_exec (imsg.py 73, 138) and the Popen of
\* subprocess.run (remindctl.py 63): the binary is missing, or the
\* subprocess starts
Exec(c) ==
    /\ call[c].pc = "exec"
    /\ running = NoReq
    /\ \/ /\ call' = [call EXCEPT ![c] =
                        [@ EXCEPT !.pc = "done",
                                  !.result = Raised("ToolNotFound", -1, <<>>)]]
          /\ running' = NoReq
       \/ /\ call' = [call EXCEPT ![c] =
                        [@ EXCEPT !.pc = "communicate",
                                  !.spawned = @ + 1,
                                  !.proc = "running"]]
          /\ running' = Holding(c, call[c].tool, "communicate")
    /\ UNCHANGED nonAdapterVars

\* the subprocess exits with a code, having written its output
Exit(c) ==
    /\ call[c].proc = "running"
    /\ \E returncode \in ExitCodes, stdout \in Stdouts, stderr \in Stderrs :
        call' = [call EXCEPT ![c] = [@ EXCEPT !.proc = "exited",
                                             !.returncode = returncode,
                                             !.stdout = stdout,
                                             !.stderr = stderr]]
    /\ UNCHANGED <<running, nonAdapterVars>>

\* proc.communicate() and subprocess.run return: the call goes on to the
\* exit code and the output
Communicated(c) ==
    /\ call[c].pc = "communicate"
    /\ call[c].proc = "exited"
    /\ CanRun(c)
    /\ call' = [call EXCEPT ![c] = [@ EXCEPT !.pc = "done",
                                             !.result = Completed(c)]]
    /\ running' = NoReq
    /\ UNCHANGED nonAdapterVars

\* where the handler of the timeout goes after proc.kill(): await
\* proc.wait() (imsg.py 87-88, 146-147); subprocess.run does the same
\* before it raises TimeoutExpired
AfterKill_Raise == "raise"

AfterKill == "wait"

\* the timeout expires before the subprocess has exited: it is killed
TimedOut(c) ==
    /\ call[c].pc = "communicate"
    /\ call[c].proc = "running"
    /\ CanRun(c)
    /\ call' = [call EXCEPT ![c] = [@ EXCEPT !.pc = AfterKill,
                                             !.proc = "killed"]]
    /\ running' = Holding(c, call[c].tool, AfterKill)
    /\ UNCHANGED nonAdapterVars

\* the killed subprocess is gone
Killed(c) ==
    /\ call[c].proc = "killed"
    /\ call' = [call EXCEPT ![c].proc = "exited"]
    /\ UNCHANGED <<running, nonAdapterVars>>

\* proc.wait() returns
Waited(c) ==
    /\ call[c].pc = "wait"
    /\ call[c].proc = "exited"
    /\ CanRun(c)
    /\ call' = [call EXCEPT ![c].pc = "raise"]
    /\ running' = Holding(c, call[c].tool, "raise")
    /\ UNCHANGED nonAdapterVars

\* the call fails with the error of the timeout
RaiseTimeout(c) ==
    /\ call[c].pc = "raise"
    /\ CanRun(c)
    /\ call' = [call EXCEPT ![c] = [@ EXCEPT !.pc = "done",
                                             !.result = Raised("Timeout", -1, <<>>)]]
    /\ running' = NoReq
    /\ UNCHANGED nonAdapterVars

-----------------------------------------------------------------------------
(* The operations that find the thread of a recipient: GET /threads/lookup,
   GET /messages/by-recipient, GET /search with a recipient; and POST /send.
   Each makes several calls of the adapters, and every call can fail. *)

\* the errors an adapter raises
AdapterFailures == {"ToolNotFound", "Timeout", "ToolFailed"}

\* how one call of an adapter ends
CallOutcomes == {"ok"} \cup AdapterFailures

\* find_thread_by_recipient returns None
NoThread == 0

NoLookup ==
    [op |-> "none", recipient |-> None, failure |-> "", status |-> 0,
     body |-> "none", error |-> ""]

LookupInit == lookup = NoLookup

\* imsg history --chat-id t --participants recipient --limit 1 prints a
\* message when the thread has one of that participant
HasMessageOf(t, recipient) ==
    \E i \in 1..Len(threads[t].messages) :
        threads[t].messages[i].sender = recipient

\* find_thread_by_recipient, lines 712-719: the loop over the threads.
\* probe[t] is how the call of get_messages for thread t ends; failure is
\* the first error a call of the loop raised
RECURSIVE ProbeThreads(_, _, _, _)
ProbeThreads(ts, recipient, probe, failure) ==
    IF ts = <<>>
    THEN [raised |-> "", thread_id |-> NoThread, failure |-> failure]
    ELSE LET t == Head(ts)
         IN  IF probe[t] # "ok"
             THEN ProbeThreads(Tail(ts), recipient, probe,
                               IF failure = "" THEN probe[t] ELSE failure)
             ELSE IF HasMessageOf(t, recipient)
             THEN [raised |-> "", thread_id |-> t, failure |-> failure]
             ELSE ProbeThreads(Tail(ts), recipient, probe, failure)

\* find_thread_by_recipient, lines 698-719; chats is how list_threads ends
find_thread_by_recipient(recipient, chats, probe) ==
    IF chats # "ok"
    THEN [raised |-> chats, thread_id |-> NoThread, failure |-> chats]
    ELSE ProbeThreads([i \in 1..MaxThreads |-> i], recipient, probe, "")

\* _handle_cli_error: HTTP 502 with the dictionary of the error
CliError(op, recipient, kind, failure) ==
    [op |-> op, recipient |-> recipient, failure |-> failure, status |-> 502,
     body |-> "error", error |-> kind]

Answer(op, recipient, status, body, failure) ==
    [op |-> op, recipient |-> recipient, failure |-> failure, status |-> status,
     body |-> body, error |-> ""]

\* the handlers after find_thread_by_recipient: found is its result, body
\* what the handler answers when there is no thread, and last how the call
\* the handler makes for the thread ends
AfterFind(op, recipient, found, status, body, last) ==
    IF found.raised # ""
    THEN CliError(op, recipient, found.raised, found.failure)
    ELSE IF found.thread_id = NoThread
    THEN Answer(op, recipient, status, body, found.failure)
    ELSE IF last # "ok"
    THEN CliError(op, recipient, last,
                  IF found.failure = "" THEN last ELSE found.failure)
    ELSE Answer(op, recipient, 200, "found", found.failure)

\* GET /threads/lookup: get_thread_by_recipient of the router, lines 128-151
LookupThread ==
    /\ \E recipient \in Recipients, chats \in CallOutcomes,
          probe \in [Threads -> CallOutcomes], last \in CallOutcomes :
        lookup' = AfterFind("lookup", recipient,
                            find_thread_by_recipient(recipient, chats, probe),
                            404, "no_thread_found", last)
    /\ UNCHANGED nonLookupVars

\* GET /messages/by-recipient: imsg.get_messages_by_recipient, lines 519-550
HistoryByRecipient ==
    /\ \E recipient \in Recipients, chats \in CallOutcomes,
          probe \in [Threads -> CallOutcomes], last \in CallOutcomes :
        lookup' = AfterFind("history", recipient,
                            find_thread_by_recipient(recipient, chats, probe),
                            200, "empty_list", last)
    /\ UNCHANGED nonLookupVars

\* GET /search with a recipient: imsg.search_messages, lines 655-695
SearchByRecipient ==
    /\ \E recipient \in Recipients, chats \in CallOutcomes,
          probe \in [Threads -> CallOutcomes], last \in CallOutcomes :
        lookup' = AfterFind("search", recipient,
                            find_thread_by_recipient(recipient, chats, probe),
                            200, "empty_list", last)
    /\ UNCHANGED nonLookupVars

\* POST /send without dry run: imsg.send_message_v2, lines 454-463; the
\* handler answers 201 with the response it returns
SendByService ==
    /\ \E recipient \in Recipients, send \in CallOutcomes :
        lookup' = IF send = "ok"
                  THEN Answer("send", recipient, 201, "ok", "")
                  ELSE Answer("send", recipient, 201, "not_ok", send)
    /\ UNCHANGED nonLookupVars

-----------------------------------------------------------------------------
(* The validation of requests by the routers, before the service functions
   and their subprocesses: the scope of search, links and reply, the keys
   of contact resolve, the reminder ids and list names of the reminders
   endpoints. *)

\* _MAX_ID_LENGTH of routers/reminders.py
_MAX_ID_LENGTH == 200

\* the characters of the class [A-Za-z0-9_\-:/.], among those of the model
SafeChar(c) == IsDigit(c) \/ c \in {"a", "A", "_", "-", ":", "/", "."}

\* _SAFE_ID_PATTERN.match(value) for ^[A-Za-z0-9_\-:/.]+$: in Python $
\* matches at the end of the text and also before a newline that ends it
_SAFE_ID_PATTERN(value) ==
    LET body == IF value # <<>> /\ value[Len(value)] = "\n"
                THEN SubSeq(value, 1, Len(value) - 1)
                ELSE value
    IN  /\ body # <<>>
        /\ \A i \in 1..Len(body) : SafeChar(body[i])

\* _validate_id, lines 30-45: TRUE when it returns, FALSE when it raises
\* the HTTPException with status 400
_validate_id(value) ==
    /\ Len(value) <= _MAX_ID_LENGTH
    /\ _SAFE_ID_PATTERN(value)

\* an identifier longer than _MAX_ID_LENGTH
LongId == [i \in 1..(_MAX_ID_LENGTH + 1) |-> "a"]

\* reminder ids and list names: safe ones, one with a shell metacharacter,
\* one that ends with a newline, one that is too long
Identifiers ==
    {<<"a">>, <<"A", "-", "1">>, <<"a", ";">>, <<"a", "\n">>, LongId}

NoRequest ==
    [op |-> "none", thread_id |-> NoThread, keys |-> <<>>, ids |-> <<>>,
     status |-> 0, started |-> FALSE]

ValidateInit == handled = NoRequest

\* the request is rejected with an HTTPException before the service
\* function is called
Refused(op, thread_id, keys, ids, status) ==
    [op |-> op, thread_id |-> thread_id, keys |-> keys, ids |-> ids,
     status |-> status, started |-> FALSE]

\* the service function is called; started tells whether it starts a
\* subprocess
Served(op, thread_id, keys, ids, started) ==
    [op |-> op, thread_id |-> thread_id, keys |-> keys, ids |-> ids,
     status |-> 200, started |-> started]

\* the values of an optional text parameter: missing, empty, given
Optional(v) == {None, <<>>, v}

\* GET /search and GET /links, routers/messages.py lines 416-420, 477-481
ScopedRead ==
    /\ \E op \in {"search", "links"}, thread_id \in {NoThread, 1},
          recipient \in Optional(<<"+", "1">>) :
        handled' = IF thread_id = NoThread /\ ~Truthy(recipient)
                   THEN Refused(op, thread_id, <<recipient>>, <<>>, 400)
                   ELSE Served(op, thread_id, <<recipient>>, <<>>, TRUE)
    /\ UNCHANGED nonValidateVars

\* POST /reply, routers/messages.py lines 360-386
ScopedReply ==
    /\ \E thread_id \in {NoThread, 1}, recipient \in Optional(<<"+", "1">>) :
        handled' = IF thread_id = NoThread /\ ~Truthy(recipient)
                   THEN Refused("reply", thread_id, <<recipient>>, <<>>, 400)
                   ELSE IF allowlist # {} /\ Truthy(recipient)
                           /\ recipient \notin allowlist
                   THEN Refused("reply", thread_id, <<recipient>>, <<>>, 403)
                   ELSE Served("reply", thread_id, <<recipient>>, <<>>, TRUE)
    /\ UNCHANGED nonValidateVars

\* GET /contacts/resolve, routers/messages.py lines 660-668: the cache is
\* asked, no subprocess is started
ResolveRequest ==
    /\ \E phone \in Optional(<<"1">>), email \in Optional(<<"a">>),
          name \in Optional(<<"a", "l">>) :
        handled' = IF ~Truthy(phone) /\ ~Truthy(email) /\ ~Truthy(name)
                   THEN Refused("resolve", NoThread, <<phone, email, name>>,
                                <<>>, 400)
                   ELSE Served("resolve", NoThread, <<phone, email, name>>,
                               <<>>, FALSE)
    /\ UNCHANGED nonValidateVars

\* the reminders handlers with a reminder id or a list name in the path:
\* delete_reminder_list, update_reminder, complete_reminder,
\* delete_reminder, routers/reminders.py lines 117-172
ReminderById ==
    /\ \E op \in {"delete_list", "update", "complete", "delete"},
          id \in Identifiers :
        handled' = IF ~_validate_id(id)
                   THEN Refused(op, NoThread, <<>>, <<id>>, 400)
                   ELSE Served(op, NoThread, <<>>, <<id>>, TRUE)
    /\ UNCHANGED nonValidateVars

\* rename_reminder_list, routers/reminders.py lines 106-114: the list name
\* of the path is validated, the new name of the body is not
RenameList ==
    /\ \E list_name \in Identifiers, new_name \in Identifiers :
        handled' = IF ~_validate_id(list_name)
                   THEN Refused("rename_list", NoThread, <<>>,
                                <<list_name, new_name>>, 400)
                   ELSE Served("rename_list", NoThread, <<>>,
                               <<list_name, new_name>>, TRUE)
    /\ UNCHANGED nonValidateVars

\* list_reminders with a list name and create_reminder_list,
\* routers/reminders.py lines 70-103: the name goes to remindctl as it is
ReminderByListName ==
    /\ \E op \in {"list_reminders", "create_list"}, name \in Identifiers :
        handled' = Served(op, NoThread, <<>>, <<name>>, TRUE)
    /\ UNCHANGED nonValidateVars

\* bulk_complete_reminders and bulk_delete_reminders, routers/reminders.py
\* lines 175-198: data.ids goes to remindctl as it is
BulkReminders ==
    /\ \E op \in {"bulk_complete", "bulk_delete"},
          ids \in ListsUpTo(Identifiers, MaxIds) :
        /\ ids # <<>>
        /\ handled' = Served(op, NoThread, <<>>, ids, TRUE)
    /\ UNCHANGED nonValidateVars

-----------------------------------------------------------------------------
(* The NDJSON output of a structured call, line by line *)

\* the lines a subprocess writes: two objects, one of them between blanks,
\* an array of two objects, an array with a number, an empty array, a
\* number, a blank line, a text that is no JSON, a truncated object
LineTexts ==
    {<<"{", "1", "}">>,
     <<" ", "{", "2", "}", " ">>,
     <<"[", "{", "3", "}", ",", "{", "4", "}", "]">>,
     <<"[", "5", ",", "{", "6", "}", "]">>,
     <<"[", "]">>,
     <<"7">>,
     <<" ">>,
     <<"x">>,
     <<"{", "8">>}

\* "\n".join(lines) + "\n"
RECURSIVE JoinLines(_)
JoinLines(lines) ==
    IF lines = <<>> THEN <<>>
    ELSE Head(lines) \o <<"\n">> \o JoinLines(Tail(lines))

\* the outputs of at most MaxOutLines lines
StructuredOutputs ==
    {JoinLines(lines) : lines \in UNION {[1..k -> LineTexts] : k \in 0..MaxOutLines}}

NotParsed == [stdout |-> None, result |-> NoResult]

ParseInit == parsed = NotParsed

\* a structured call whose subprocess exits with code 0 and this output
ParseOutput ==
    /\ \E stdout \in StructuredOutputs :
        parsed' = [stdout |-> stdout, result |-> _run_imsg(0, stdout, <<>>)]
    /\ UNCHANGED nonParseVars

-----------------------------------------------------------------------------
(* search_messages_fast: the scan of the text output of imsg history *)

\* the lines of imsg history without --json: a message with the text "1",
\* one with the text "x", one without text, the line of an attachment, a
\* blank line, and a line that is no message
SearchLines ==
    {LinePrefix \o <<" ", "1">>,
     LinePrefix \o <<" ", "x">>,
     LinePrefix,
     <<"(", "1", ")">>,
     <<" ">>,
     <<"1">>}

\* the histories of at most MaxScan lines
Histories == UNION {[1..k -> SearchLines] : k \in 0..MaxScan}

SearchQueries == {<<"1">>, <<"X">>}

\* search_messages_fast, lines 636-637: the line is skipped
SkippedLine(line) == line = <<>> \/ line[1] = "("

\* search_messages_fast, lines 640-646: the stripped line gives a Message
\* of the result
LineMatches(line, query) ==
    /\ Contains(Lower(line), Lower(query))
    /\ TextOfLine(line) # None
    /\ Truthy(TextMessageText(TextOfLine(line)))
    /\ Contains(Lower(TextMessageText(TextOfLine(line))), Lower(query))

\* a scan that stops one match late
LimitReached_OneLate(matches, result_limit) == Len(matches) > result_limit

\* search_messages_fast, line 648: if len(matches) >= result_limit: break
LimitReached(matches, result_limit) == Len(matches) >= result_limit

\* search_messages_fast, lines 634-652: the loop over the lines from line
\* i on; line_idx counts the lines that are not skipped; examined is the
\* last line the loop looked at
RECURSIVE Scan(_, _, _, _, _, _)
Scan(lines, i, line_idx, query, result_limit, matches) ==
    IF i > Len(lines)
    THEN [matches |-> matches, examined |-> Len(lines)]
    ELSE LET line == Strip(lines[i])
         IN  IF SkippedLine(line)
             THEN Scan(lines, i + 1, line_idx, query, result_limit, matches)
             ELSE IF LineMatches(line, query)
             THEN LET msg == [id |-> line_idx, n |-> i,
                              text |-> TextMessageText(TextOfLine(line))]
                  IN  IF LimitReached(Append(matches, msg), result_limit)
                      THEN [matches |-> Append(matches, msg), examined |-> i]
                      ELSE Scan(lines, i + 1, line_idx + 1, query,
                                result_limit, Append(matches, msg))
             ELSE Scan(lines, i + 1, line_idx + 1, query, result_limit, matches)

NoSearch ==
    [lines |-> <<>>, query |-> None, result_limit |-> 0, raised |-> "",
     matches |-> <<>>, examined |-> 0]

SearchInit == searched = NoSearch

\* search_messages_fast: the raw call of imsg history returns its output,
\* which is scanned.  The handler of GET /search passes a limit of at
\* least 1.
SearchFast ==
    /\ \E lines \in Histories, query \in SearchQueries,
          result_limit \in 1..MaxResults :
        LET scan == Scan(lines, 1, 0, query, result_limit, <<>>)
        IN  searched' = [lines |-> lines, query |-> query,
                         result_limit |-> result_limit, raised |-> "",
                         matches |-> scan.matches,
                         examined |-> scan.examined]
    /\ UNCHANGED nonSearchVars

\* search_messages_fast: the raw call of imsg history raises, and so does
\* search_messages_fast
SearchFails ==
    /\ \E query \in SearchQueries, result_limit \in 1..MaxResults,
          cli \in AdapterFailures :
        searched' = [lines |-> <<>>, query |-> query,
                     result_limit |-> result_limit, raised |-> cli,
                     matches |-> <<>>, examined |-> 0]
    /\ UNCHANGED nonSearchVars

-----------------------------------------------------------------------------
(* extract_links: the links of the messages of a thread *)

\* the words _URL_PATTERN matches: the texts of the model are sequences of
\* words, and findall gives the words that are URLs, from left to right
UrlWords == {"http://a.b", "HTTPS://c.d/e"}

\* the texts of the messages: none, empty, without a URL, with one URL,
\* with two URLs around an invisible character
LinkTexts ==
    {None, <<>>, <<"hi", "ftp://a.b">>, <<"see", "http://a.b">>,
     <<"http://a.b", "U+FFFC", "HTTPS://c.d/e">>}

\* the messages get_messages returns, as far as extract_links looks at
\* them: sent by me, or received from "+1"
LinkMessages ==
    [is_from_me : {TRUE}, sender : {None}, text : LinkTexts]
    \cup [is_from_me : {FALSE}, sender : {<<"+", "1">>}, text : LinkTexts]

\* the values of from_me
Directions == {"None", "True", "False"}

\* _extract_urls, lines 744-750
_extract_urls(text) ==
    IF ~Truthy(text) THEN <<>>
    ELSE SelectSeq(_clean_text(text), LAMBDA w : w \in UrlWords)

\* a scan that takes the messages of both directions
SkippedByDirection_Never(from_me, msg) == FALSE

\* extract_links, lines 822-826: the message is skipped for its direction
SkippedByDirection(from_me, msg) ==
    \/ from_me = "True" /\ ~msg.is_from_me
    \/ from_me = "False" /\ msg.is_from_me

\* extract_links, lines 836-844: the ExtractedLink of a URL of message i
ExtractedLink(url, i, msg) ==
    [url |-> url, message_id |-> i,
     sender |-> IF ~msg.is_from_me THEN msg.sender ELSE <<"m", "e">>]

\* extract_links, lines 818-846: the loop over reversed(messages), from
\* message i down to the first one
RECURSIVE ScanLinks(_, _, _, _, _)
ScanLinks(messages, i, limit, from_me, links) ==
    IF i = 0 \/ Len(links) >= limit
    THEN links
    ELSE LET msg == messages[i]
             urls == _extract_urls(msg.text)
             new == [k \in 1..Len(urls) |-> ExtractedLink(urls[k], i, msg)]
         IN  IF SkippedByDirection(from_me, msg) \/ ~Truthy(msg.text)
             THEN ScanLinks(messages, i - 1, limit, from_me, links)
             ELSE ScanLinks(messages, i - 1, limit, from_me,
                            links \o Prefix(new, limit - Len(links)))

NotExtracted == [kind |-> "none", links |-> <<>>]

\* no request for links
LinksInit ==
    linked = [thread_id |-> NoThread, messages |-> <<>>, limit |-> 0,
              from_me |-> "None", out |-> NotExtracted]

\* a request for links, with any thread, messages, limit and direction
LinksConfigured ==
    linked \in [thread_id : {NoThread, 1},
                messages : UNION {[1..k -> LinkMessages] : k \in 0..MaxFetched},
                limit : 0..MaxLinks,
                from_me : Directions,
                out : {NotExtracted}]

\* extract_links, lines 802-846, when its calls of imsg succeed: no thread
\* gives the empty list
ExtractLinks ==
    /\ linked.out = NotExtracted
    /\ linked' = [linked EXCEPT !.out =
                    [kind |-> "ok",
                     links |-> IF linked.thread_id = NoThread THEN <<>>
                               ELSE ScanLinks(linked.messages,
                                              Len(linked.messages),
                                              linked.limit, linked.from_me,
                                              <<>>)]]
    /\ UNCHANGED nonLinkVars

\* extract_links when get_messages raises
ExtractFails ==
    /\ linked.out = NotExtracted
    /\ linked.thread_id # NoThread
    /\ \E cli \in AdapterFailures :
        linked' = [linked EXCEPT !.out = [kind |-> cli, links |-> <<>>]]
    /\ UNCHANGED nonLinkVars

-----------------------------------------------------------------------------
(* find_thread_by_recipient over a listing of several threads: which
   threads it probes, and in which order *)

\* how the probe of a thread ends: get_messages returns a message, returns
\* nothing, or raises
ProbeOutcomes == {"message", "empty"} \cup AdapterFailures

\* what imsg knows: threads with distinct ids, most recent first, each with
\* the outcome its probe is going to have
Listings ==
    {l \in UNION {[1..k -> [id : 1..MaxListed, probe : ProbeOutcomes]] :
                    k \in 0..MaxListed} :
        \A i, j \in 1..Len(l) : i # j => l[i].id # l[j].id}

\* list_threads, lines 262-272: imsg chats --limit prints at most limit
\* threads
list_threads(listing, limit) == Prefix(listing, limit)

\* a probe that takes any answer for a hit
ProbeHit_AnyAnswer(outcome) == outcome \in {"message", "empty"}

\* find_thread_by_recipient, line 716: if messages
ProbeHit(outcome) == outcome = "message"

\* find_thread_by_recipient, lines 712-719: the loop from thread i of the
\* listing on; probes are the ids of the threads probed so far
RECURSIVE ProbeInOrder(_, _, _)
ProbeInOrder(listed, i, probes) ==
    IF i > Len(listed)
    THEN [thread_id |-> NoThread, probes |-> probes]
    ELSE IF ProbeHit(listed[i].probe)
    THEN [thread_id |-> listed[i].id, probes |-> Append(probes, listed[i].id)]
    ELSE ProbeInOrder(listed, i + 1, Append(probes, listed[i].id))

NotSought == [kind |-> "none", thread_id |-> NoThread, probes |-> <<>>]

\* no call of find_thread_by_recipient
FindInit == sought = [listing |-> <<>>, max_threads |-> 1, out |-> NotSought]

\* a call of find_thread_by_recipient, with any listing and max_threads
FindConfigured ==
    sought \in [listing : Listings, max_threads : 1..MaxListed,
                out : {NotSought}]

\* find_thread_by_recipient, lines 698-719, when list_threads succeeds
FindThread ==
    /\ sought.out = NotSought
    /\ LET found == ProbeInOrder(list_threads(sought.listing, sought.max_threads),
                                 1, <<>>)
       IN  sought' = [sought EXCEPT !.out = [kind |-> "ok",
                                              thread_id |-> found.thread_id,
                                              probes |-> found.probes]]
    /\ UNCHANGED nonFindVars

\* find_thread_by_recipient when list_threads raises
FindFails ==
    /\ sought.out = NotSought
    /\ \E cli \in AdapterFailures :
        sought' = [sought EXCEPT !.out = [kind |-> cli, thread_id |-> NoThread,
                                           probes |-> <<>>]]
    /\ UNCHANGED nonFindVars

-----------------------------------------------------------------------------
(* The fields of the records of imsg that have two keys: the camelCase key
   of imsg and its snake_case alias, as _parse_message, _parse_attachment,
   _parse_participant and _parse_thread read them.  A JSON value is written
   as its JSON text. *)

\* the key is not in the record
Absent == "<absent>"

JsonTexts == {"null", "false", "true", "0", "5", "\"\"", "\"a\""}

\* bool(value) is False: None, False, 0 and the empty string
Falsy(value) == value \in {"null", "false", "0", "\"\""}

\* dict.get(key, default), on the value the record holds for the key
get(held, default) == IF held = Absent THEN default ELSE held

\* the fields: the field of the model, its two keys in the order the code
\* asks for them, and the default of each dict.get
AliasFields ==
    {[field |-> "Message.id", first |-> "id", second |-> "rowid",
      d1 |-> "null", d2 |-> "null"],
     [field |-> "Message.chat_id", first |-> "chatId", second |-> "chat_id",
      d1 |-> "null", d2 |-> "0"],
     [field |-> "Message.reply_to_guid", first |-> "replyToGuid",
      second |-> "reply_to_guid", d1 |-> "null", d2 |-> "null"],
     [field |-> "Message.sender", first |-> "sender", second |-> "handle",
      d1 |-> "null", d2 |-> "null"],
     [field |-> "Message.is_from_me", first |-> "isFromMe",
      second |-> "is_from_me", d1 |-> "false", d2 |-> "false"],
     [field |-> "Message.created_at", first |-> "date",
      second |-> "created_at", d1 |-> "null", d2 |-> "null"],
     [field |-> "Attachment.transfer_name", first |-> "transferName",
      second |-> "transfer_name", d1 |-> "null", d2 |-> "null"],
     [field |-> "Attachment.mime_type", first |-> "mimeType",
      second |-> "mime_type", d1 |-> "null", d2 |-> "null"],
     [field |-> "Attachment.total_bytes", first |-> "totalBytes",
      second |-> "total_bytes", d1 |-> "null", d2 |-> "null"],
     [field |-> "Attachment.is_sticker", first |-> "isSticker",
      second |-> "is_sticker", d1 |-> "false", d2 |-> "false"],
     [field |-> "Attachment.original_path", first |-> "originalPath",
      second |-> "original_path", d1 |-> "null", d2 |-> "null"],
     [field |-> "Participant.handle", first |-> "handle", second |-> "id",
      d1 |-> "null", d2 |-> "\"\""],
     [field |-> "Participant.display_name", first |-> "displayName",
      second |-> "display_name", d1 |-> "null", d2 |-> "null"],
     [field |-> "Thread.name", first |-> "displayName", second |-> "name",
      d1 |-> "null", d2 |-> "null"],
     [field |-> "Thread.last_message_at", first |-> "lastMessageDate",
      second |-> "last_message_at", d1 |-> "null", d2 |-> "null"]}

\* data.get(first, d1) or data.get(second, d2): the value the parser takes
\* for the field, before the conversion of the field (int, _parse_datetime)
GetOrGet(f, held1, held2) ==
    IF ~Falsy(get(held1, f.d1)) THEN get(held1, f.d1) ELSE get(held2, f.d2)

NotTaken == "<none>"

\* no record parsed
AliasInit ==
    aliased = [f \in {"field", "first", "second", "d1", "d2", "held1",
                      "held2", "value"} |-> NotTaken]

\* a record of imsg: what it holds for the two keys of a field
AliasConfigured ==
    \E f \in AliasFields : \E held1, held2 \in JsonTexts \cup {Absent} :
        aliased = [field |-> f.field, first |-> f.first, second |-> f.second,
                   d1 |-> f.d1, d2 |-> f.d2, held1 |-> held1,
                   held2 |-> held2, value |-> NotTaken]

\* the parser of the record reads the field
ParseField ==
    /\ aliased.value = NotTaken
    /\ aliased' = [aliased EXCEPT
                     !.value = GetOrGet(aliased, aliased.held1, aliased.held2)]
    /\ UNCHANGED nonAliasVars

-----------------------------------------------------------------------------
(* list_reminders: the arguments it hands to remindctl.  A word of the
   command line is a string of one element. *)

\* ReminderFilter, models/reminders.py lines 9-18: the values of the members
ReminderFilters ==
    {<<"today">>, <<"tomorrow">>, <<"week">>, <<"overdue">>, <<"upcoming">>,
     <<"completed">>, <<"all">>}

\* ReminderFilter.ALL
ALL == <<"all">>

\* the date and list parameters of the request: not given, empty, given
DateParams == {None, <<>>, <<"2024-01-01">>}

ListParams == {None, <<>>, <<"Work">>}

\* list_reminders, lines 140-143: the argument after show
FilterArgs(filter_type, date) ==
    IF filter_type # ALL THEN <<filter_type>>
    ELSE IF Truthy(date) THEN <<date>>
    ELSE <<>>

\* list_reminders, lines 138-146: the arguments of _run_remindctl
ShowArgs(filter_type, date, list_name) ==
    <<<<"show">>>> \o FilterArgs(filter_type, date)
        \o (IF Truthy(list_name) THEN <<<<"--list">>, list_name>> ELSE <<>>)

NotShown == [kind |-> "none", args |-> <<>>]

\* no request for reminders
ShowInit ==
    shown = [filter |-> ALL, date |-> None, list |-> None, out |-> NotShown]

\* a request GET /v1/reminders, with any filter, date and list
ShowConfigured ==
    shown \in [filter : ReminderFilters, date : DateParams, list : ListParams,
               out : {NotShown}]

\* list_reminders, lines 132-151: remindctl is called and answers
ListReminders ==
    /\ shown.out = NotShown
    /\ shown' = [shown EXCEPT
                   !.out = [kind |-> "ok",
                            args |-> ShowArgs(shown.filter, shown.date,
                                              shown.list)]]
    /\ UNCHANGED nonShowVars

\* list_reminders when remindctl fails: the router answers 500
ListRemindersFails ==
    /\ shown.out = NotShown
    /\ \E cli \in AdapterFailures :
        shown' = [shown EXCEPT
                    !.out = [kind |-> cli,
                             args |-> ShowArgs(shown.filter, shown.date,
                                               shown.list)]]
    /\ UNCHANGED nonShowVars

-----------------------------------------------------------------------------
(* The inputs of the contact cache *)

\* the raw phone numbers "+1" and "1-" (whose key is "1") and the raw email
\* "A" (whose key is "a")
UpsertInputs ==
    [name : {None, <<"A", "l">>},
     phones : ListsUpTo({<<"+", "1">>, <<"1", "-">>}, 2),
     emails : ListsUpTo({<<"A">>}, 1),
     aliases : {<<>>}]

\* for resolving by phone and email: the phone "1-" (key "1"), the emails "A"
\* (key "a") and "" (key ""), the name "Al"
KeyedInputs ==
    [name : {None, <<"A", "l">>},
     phones : ListsUpTo({<<"1", "-">>}, 1),
     emails : ListsUpTo({<<"A">>, <<>>}, 1),
     aliases : {<<>>}]

KeyedQueries ==
    {None, <<"1">>} \X {None, <<>>, <<"a">>} \X {None, <<"a", "l">>}

\* for resolving by name: the names "Al" and "Ali", the alias "Al", the
\* phone "1-"
NamedInputs ==
    [name : {None, <<"A", "l">>, <<"A", "l", "i">>},
     phones : ListsUpTo({<<"1", "-">>}, 1),
     emails : {<<>>},
     aliases : ListsUpTo({<<"A", "l">>}, 1)]

NamedQueries ==
    {None, <<"2">>} \X {None} \X {None, <<"a", "l">>, <<"L">>}

AllIds == 1..(MaxContacts + 1)

CacheInit ==
    /\ contacts = EmptyMap
    /\ phone_index = EmptyMap
    /\ email_index = EmptyMap
    /\ file = [state |-> "missing", data |-> <<>>]
    /\ nextId = 0
    /\ ret = Ret("init", NoArgs, NoId, TRUE, "", {}, NotSaved)

Init == CacheInit /\ WatchInit /\ ConcInit /\ SendInit /\ TextInit /\ AdapterInit /\ LookupInit /\ ValidateInit /\ ParseInit /\ SearchInit
        /\ LinksInit
        /\ FindInit
        /\ AliasInit
        /\ ShowInit
        /\ StallInit

Upsert ==
    /\ \E data \in UpsertInputs : upsert(data, "ok", MaxContacts)
    /\ UNCHANGED nonCacheVars

Delete ==
    /\ \E id \in AllIds : delete(id, "ok")
    /\ UNCHANGED nonCacheVars

Clear ==
    /\ clear("ok")
    /\ UNCHANGED nonCacheVars

Next == Upsert \/ Delete \/ Clear

\* the contact cache under upsert, delete and clear
Spec == Init /\ [][Next]_vars

UpsertKeyed ==
    /\ \E data \in KeyedInputs : upsert(data, "ok", MaxKeyed)
    /\ UNCHANGED nonCacheVars

ResolveKeyed ==
    /\ \E q \in KeyedQueries : resolve(q[1], q[2], q[3])
    /\ UNCHANGED nonCacheVars

NextResolve == UpsertKeyed \/ Delete \/ ResolveKeyed

\* the contact cache under upsert, delete and resolve by phone, email and name
SpecResolve == Init /\ [][NextResolve]_vars

UpsertNamed ==
    /\ \E data \in NamedInputs : upsert(data, "ok", MaxContacts)
    /\ UNCHANGED nonCacheVars

ResolveNamed ==
    /\ \E q \in NamedQueries : resolve(q[1], q[2], q[3])
    /\ UNCHANGED nonCacheVars

NextNames == UpsertNamed \/ Delete \/ ResolveNamed

\* the contact cache with named contacts, under upsert, delete and resolve
SpecNames == Init /\ [][NextNames]_vars

\* for persistence: the name "Al", the phone "1-", the email "A"
PersistInputs ==
    [name : {None, <<"A", "l">>},
     phones : ListsUpTo({<<"1", "-">>}, 1),
     emails : ListsUpTo({<<"A">>}, 1),
     aliases : {<<>>}]

UpsertIO ==
    /\ \E data \in PersistInputs :
        \E io \in SaveOutcomes : upsert(data, io, MaxKeyed)
    /\ UNCHANGED nonCacheVars

DeleteIO ==
    /\ \E id \in AllIds : \E io \in SaveOutcomes : delete(id, io)
    /\ UNCHANGED nonCacheVars

ClearIO ==
    /\ \E io \in SaveOutcomes : clear(io)
    /\ UNCHANGED nonCacheVars

\* the process is restarted: a new cache is constructed on the file
Restart ==
    /\ _load
    /\ UNCHANGED nonCacheVars

NextPersist == UpsertIO \/ DeleteIO \/ ClearIO \/ Restart

\* the contact cache and its file, with writes that can fail and restarts
SpecPersist == Init /\ [][NextPersist]_vars

NextWatch ==
    \/ \E s \in Streams : StartWatch(s)
    \/ \E s \in Streams : ProcWrite(s)
    \/ \E s \in Streams : ProcExit(s)
    \/ \E s \in Streams : ChildWatcher(s)
    \/ \E s \in Streams : ReadLine(s)
    \/ \E s \in Streams : Resume(s)
    \/ \E s \in Streams : Cancel(s)
    \/ \E s \in Streams : WaitDone(s)

\* the watch streams and their subprocesses
SpecWatch == Init /\ [][NextWatch]_vars

NextConc ==
    \/ \E r \in Requests : Arrive(r)
    \/ \E r \in Requests : HandlerStart(r)
    \/ \E r \in Requests : UpsertLookup(r)
    \/ \E r \in Requests : UpsertUnindex(r)
    \/ \E r \in Requests : UpsertMerge(r)
    \/ \E r \in Requests : UpsertCreate(r)
    \/ \E r \in Requests : UpsertIndex(r)
    \/ \E r \in Requests : DeletePop(r)
    \/ \E r \in Requests : DeleteUnindexDeleted(r)
    \/ \E r \in Requests : ClearContacts(r)
    \/ \E r \in Requests : ClearPhoneIndex(r)
    \/ \E r \in Requests : ClearEmailIndex(r)
    \/ \E r \in Requests : SaveAndReturn(r)
    \/ \E r \in Requests : ResolveRead(r)

\* concurrent requests on the contact cache, statement by statement
SpecConc == Init /\ [][NextConc]_vars

NextAdapter ==
    \/ \E c \in Callers : CallAdapter(c)
    \/ \E c \in Callers : Exec(c)
    \/ \E c \in Callers : Exit(c)
    \/ \E c \in Callers : Communicated(c)
    \/ \E c \in Callers : TimedOut(c)
    \/ \E c \in Callers : Killed(c)
    \/ \E c \in Callers : Waited(c)
    \/ \E c \in Callers : RaiseTimeout(c)

\* calls of the CLI adapters and their subprocesses
SpecAdapter == Init /\ [][NextAdapter]_vars

NextLookup ==
    LookupThread \/ HistoryByRecipient \/ SearchByRecipient \/ SendByService
        \/ MessageArrives

\* the operations that find the thread of a recipient, and send
SpecLookup == Init /\ [][NextLookup]_vars

NextValidate ==
    ScopedRead \/ ScopedReply \/ ResolveRequest \/ ReminderById \/ RenameList
        \/ ReminderByListName \/ BulkReminders

\* the requests the routers validate
SpecValidate == Init /\ [][NextValidate]_vars

NextParse == ParseOutput

\* structured calls that succeed, over the outputs of a few lines
SpecParse == Init /\ [][NextParse]_vars

NextSearch == SearchFast \/ SearchFails

\* searches over the histories of a few lines
SpecSearch == Init /\ [][NextSearch]_vars

InitLinks ==
    CacheInit /\ WatchInit /\ ConcInit /\ SendInit /\ TextInit /\ AdapterInit
        /\ LookupInit /\ ValidateInit /\ ParseInit /\ SearchInit
        /\ LinksConfigured /\ FindInit
        /\ AliasInit
        /\ ShowInit
        /\ StallInit

NextLinks == ExtractLinks \/ ExtractFails

\* the requests for links
SpecLinks == InitLinks /\ [][NextLinks]_vars

InitFind ==
    CacheInit /\ WatchInit /\ ConcInit /\ SendInit /\ TextInit /\ AdapterInit
        /\ LookupInit /\ ValidateInit /\ ParseInit /\ SearchInit /\ LinksInit
        /\ FindConfigured
        /\ AliasInit
        /\ ShowInit
        /\ StallInit

NextFind == FindThread \/ FindFails

\* the calls of find_thread_by_recipient
SpecFind == InitFind /\ [][NextFind]_vars

\* the items of a persistence file that are contact records
LoadItems ==
    [id : 1..MaxKeyed, name : {None, <<"A", "l">>},
     phones : {<<>>, <<<<"+", "1">>>>}, emails : {<<>>, <<<<"A">>>>},
     aliases : {<<>>}]

\* the persistence files a cache can be constructed on, whoever wrote them
Documents ==
    [state : {"missing", "corrupt", "not_list"}, data : {<<>>}]
        \cup [state : {"ok", "invalid_entry"},
              data : UNION {[1..k -> LoadItems] : k \in 0..MaxKeyed}]

InitLoad ==
    /\ contacts = EmptyMap
    /\ phone_index = EmptyMap
    /\ email_index = EmptyMap
    /\ file \in Documents
    /\ nextId = 0
    /\ ret = Ret("init", NoArgs, NoId, TRUE, "", {}, NotSaved)
    /\ WatchInit /\ ConcInit /\ SendInit /\ TextInit /\ AdapterInit
    /\ LookupInit /\ ValidateInit /\ ParseInit /\ SearchInit /\ LinksInit
    /\ FindInit /\ AliasInit /\ ShowInit /\ StallInit

\* ContactCache() on the file, once
Construct ==
    /\ ret.op = "init"
    /\ _load
    /\ UNCHANGED nonCacheVars

NextLoad == Construct

\* the construction of a cache on any persistence file
SpecLoad == InitLoad /\ [][NextLoad]_vars

InitAlias ==
    CacheInit /\ WatchInit /\ ConcInit /\ SendInit /\ TextInit /\ AdapterInit
        /\ LookupInit /\ ValidateInit /\ ParseInit /\ SearchInit /\ LinksInit
        /\ FindInit /\ AliasConfigured
        /\ ShowInit
        /\ StallInit

NextAlias == ParseField

\* the fields with two keys, for every record
SpecAlias == InitAlias /\ [][NextAlias]_vars

InitShow ==
    CacheInit /\ WatchInit /\ ConcInit /\ SendInit /\ TextInit /\ AdapterInit
        /\ LookupInit /\ ValidateInit /\ ParseInit /\ SearchInit /\ LinksInit
        /\ FindInit /\ AliasInit /\ ShowConfigured
        /\ StallInit

NextShow == ListReminders \/ ListRemindersFails

\* the requests for reminders
SpecShow == InitShow /\ [][NextShow]_vars

NextStall ==
    \/ \E s \in Streams : StartWatch(s)
    \/ \E s \in Streams : ProcWrite(s)
    \/ \E s \in Streams : ProcWriteErr(s)
    \/ \E s \in Streams : ProcExit(s)
    \/ \E s \in Streams : ChildWatcher(s)
    \/ \E s \in Streams : ReadLine(s)
    \/ \E s \in Streams : Resume(s)
    \/ \E s \in Streams : WaitDone(s)

\* the event loop runs the generator whenever it can go on, the caller asks
\* for the next message whenever one was yielded, and the event loop sees
\* the exit of a subprocess; the subprocess writes and exits as it likes
FairStall ==
    \A s \in Streams :
        /\ WF_vars(ReadLine(s))
        /\ WF_vars(Resume(s))
        /\ WF_vars(WaitDone(s))
        /\ WF_vars(ChildWatcher(s))

\* the watch streams whose caller keeps consuming and never cancels, with
\* subprocesses that write to stdout and stderr
SpecStall == Init /\ [][NextStall]_vars /\ FairStall

InitSend == CacheInit /\ WatchInit /\ ConcInit /\ SendConfigured /\ TextInit /\ AdapterInit /\ LookupInit /\ ValidateInit /\ ParseInit /\ SearchInit
        /\ LinksInit
        /\ FindInit
        /\ AliasInit
        /\ ShowInit
        /\ StallInit

NextSend == SendMessage \/ ReplyToThread \/ MessageArrives \/ UpsertRecipient

\* send and reply under every configuration of the allowlist
SpecSend == InitSend /\ [][NextSend]_vars

InitText == CacheInit /\ WatchInit /\ ConcInit /\ SendInit /\ TextConfigured /\ AdapterInit /\ LookupInit /\ ValidateInit /\ ParseInit /\ SearchInit
        /\ LinksInit
        /\ FindInit
        /\ AliasInit
        /\ ShowInit
        /\ StallInit

NextText == HistoryMessage \/ WatchMessage \/ SearchMessage

\* the Messages of the three paths, under every setting of the PII filter
SpecText == InitText /\ [][NextText]_vars

-----------------------------------------------------------------------------
(* The claims about the contact cache *)

\* the contacts that hold a phone with the same normalized form as a phone of
\* data, or an email with the same lowercased form as an email of data
HoldersOf(data) ==
    {i \in DOMAIN contacts :
        \/ \E p \in Range(data.phones) : _normalize_phone(p) \in PhoneKeys(contacts[i])
        \/ \E e \in Range(data.emails) : Lower(e) \in EmailKeys(contacts[i])}

\* C1: every key of the phone index and of the email index maps to a contact
\* id of the contact map, and every normalized phone and lowercased email of
\* every contact of the map is a key of the corresponding index.
C1_IndicesConsistent ==
    /\ \A k \in DOMAIN phone_index : phone_index[k] \in DOMAIN contacts
    /\ \A k \in DOMAIN email_index : email_index[k] \in DOMAIN contacts
    /\ \A i \in DOMAIN contacts :
        /\ PhoneKeys(contacts[i]) \subseteq DOMAIN phone_index
        /\ EmailKeys(contacts[i]) \subseteq DOMAIN email_index

\* C2: an upsert whose phone or email matches an existing contact creates no
\* contact and returns a matching contact, whose id is unchanged, whose name
\* is the upsert's name when that is non-empty and the previous name
\* otherwise, and whose phones, emails and aliases are the union of the
\* previous and the supplied values.
C2_UpsertMergesIntoHolder ==
    [][\A data \in UpsertInputs :
        (upsert(data, "ok", MaxContacts) /\ HoldersOf(data) # {}) =>
            /\ DOMAIN contacts' = DOMAIN contacts
            /\ ret'.id \in HoldersOf(data)
            /\ contacts'[ret'.id].id = ret'.id
            /\ contacts'[ret'.id].name =
                 (IF data.name \notin {None, <<>>} THEN data.name
                  ELSE contacts[ret'.id].name)
            /\ contacts'[ret'.id].phones =
                 contacts[ret'.id].phones \cup Range(data.phones)
            /\ contacts'[ret'.id].emails =
                 contacts[ret'.id].emails \cup Range(data.emails)
            /\ contacts'[ret'.id].aliases =
                 contacts[ret'.id].aliases \cup Range(data.aliases)]_vars

\* the arguments of the last resolve
ArgPhone == ret.args[1]

ArgEmail == ret.args[2]

ArgName == ret.args[3]

OkWith(id) == ret.status = "ok" /\ ret.id = id /\ id \in DOMAIN contacts

\* C3, as stated: whenever the normalized phone is a key of the phone index,
\* resolve returns ok with the contact of that key, whatever email and name
\* are; otherwise, whenever the lowercased email is a key of the email index,
\* resolve returns ok with the contact of that key.
C3_PrecedenceAnyValue ==
    ret.op = "resolve" =>
        IF ArgPhone # None /\ _normalize_phone(ArgPhone) \in DOMAIN phone_index
        THEN OkWith(phone_index[_normalize_phone(ArgPhone)])
        ELSE IF ArgEmail # None /\ Lower(ArgEmail) \in DOMAIN email_index
        THEN OkWith(email_index[Lower(ArgEmail)])
        ELSE TRUE

\* C3, amended: for a non-empty phone whose normalized form is a key of the
\* phone index, resolve returns ok with the contact of that key, whatever
\* email and name are; otherwise, for a non-empty email whose lowercased form
\* is a key of the email index, resolve returns ok with the contact of that
\* key, whatever name is.
C3_Precedence ==
    ret.op = "resolve" =>
        IF ArgPhone \notin {None, <<>>}
           /\ _normalize_phone(ArgPhone) \in DOMAIN phone_index
        THEN OkWith(phone_index[_normalize_phone(ArgPhone)])
        ELSE IF ArgEmail \notin {None, <<>>}
                /\ Lower(ArgEmail) \in DOMAIN email_index
        THEN OkWith(email_index[Lower(ArgEmail)])
        ELSE TRUE

\* a resolve whose phone hits one contact while its email is the key of
\* another one and its name is given
C3_Witness ==
    /\ ret.op = "resolve"
    /\ ArgPhone = <<"1">> /\ ArgEmail = <<"a">> /\ ArgName # None
    /\ <<"1">> \in DOMAIN phone_index /\ <<"a">> \in DOMAIN email_index
    /\ phone_index[<<"1">>] # email_index[<<"a">>]
    /\ ret.status = "ok" /\ ret.id = phone_index[<<"1">>]

\* the last resolve went on to name matching: its name is non-empty and
\* neither index was hit
ReachedNameMatching ==
    /\ ret.op = "resolve"
    /\ ArgName \notin {None, <<>>}
    /\ ~(ArgPhone \notin {None, <<>>}
         /\ _normalize_phone(ArgPhone) \in DOMAIN phone_index)
    /\ ~(ArgEmail \notin {None, <<>>} /\ Lower(ArgEmail) \in DOMAIN email_index)

\* the contacts whose name equals the query, case-insensitively
NamedExactly(q) ==
    {i \in DOMAIN contacts :
        contacts[i].name # None /\ Lower(contacts[i].name) = Lower(q)}

\* the contacts whose name or an alias contains the query, case-insensitively
NamedLike(q) ==
    {i \in DOMAIN contacts :
        \/ contacts[i].name # None /\ Contains(Lower(contacts[i].name), Lower(q))
        \/ \E a \in contacts[i].aliases : Contains(Lower(a), Lower(q))}

\* C4: in name matching, one exact match gives ok with it; several give
\* ambiguous with exactly them as candidates; only when there is none the
\* substring matches decide: one gives ok, several give ambiguous with
\* exactly them, none gives not_found.
C4_NameMatching ==
    ReachedNameMatching =>
        LET exact == NamedExactly(ArgName)
            like == NamedLike(ArgName)
        IN  /\ Cardinality(exact) = 1 =>
                ret.status = "ok" /\ ret.id \in exact
            /\ Cardinality(exact) > 1 =>
                ret.status = "ambiguous" /\ ret.cands = exact
            /\ (exact = {} /\ Cardinality(like) = 1) =>
                ret.status = "ok" /\ ret.id \in like
            /\ (exact = {} /\ Cardinality(like) > 1) =>
                ret.status = "ambiguous" /\ ret.cands = like
            /\ (exact = {} /\ like = {}) =>
                ret.status = "not_found"

\* a name with one exact match and two substring matches resolved to the
\* exact match
C4_Witness ==
    /\ ReachedNameMatching
    /\ Cardinality(NamedExactly(ArgName)) = 1
    /\ Cardinality(NamedLike(ArgName)) = 2
    /\ ret.status = "ok"

\* C9: a delete of an existing contact removes it from the contact map, leaves
\* no index entry pointing to its id when the file is written, and returns
\* true; a delete of an id that does not exist returns false and changes
\* neither the contact map, the indices nor the file.
C9_Delete ==
    [][ret'.op = "delete" =>
        LET id == ret'.args[1]
        IN  IF id \in DOMAIN contacts
            THEN /\ ret'.ok
                 /\ id \notin DOMAIN contacts'
                 /\ ret'.saved.io # "none"
                 /\ id \notin ret'.saved.ids
                 /\ \A k \in DOMAIN ret'.saved.phone : ret'.saved.phone[k] # id
                 /\ \A k \in DOMAIN ret'.saved.email : ret'.saved.email[k] # id
                 /\ \A k \in DOMAIN phone_index' : phone_index'[k] # id
                 /\ \A k \in DOMAIN email_index' : email_index'[k] # id
            ELSE /\ ~ret'.ok
                 /\ ret'.saved.io = "none"
                 /\ UNCHANGED <<contacts, phone_index, email_index, file>>]_vars

\* an existing contact was deleted and the file written, while another
\* contact stays in the cache
C9_Witness ==
    /\ ret.op = "delete" /\ ret.ok
    /\ ret.saved.io = "ok"
    /\ contacts # EmptyMap
    /\ file.state = "ok"

\* the call that returned last was an upsert, a clear or a delete that
\* returned true, given what it returned
Mutating(r) == r.op \in {"upsert", "clear"} \/ (r.op = "delete" /\ r.ok)

\* the file f is a complete document that lists exactly the contacts cs
FileHolds(f, cs) ==
    /\ f.state = "ok"
    /\ Len(f.data) = Cardinality(DOMAIN cs)
    /\ \A i \in DOMAIN cs :
        \E n \in 1..Len(f.data) :
            /\ f.data[n].id = i
            /\ f.data[n].name = cs[i].name
            /\ Range(f.data[n].phones) = cs[i].phones
            /\ Range(f.data[n].emails) = cs[i].emails
            /\ Range(f.data[n].aliases) = cs[i].aliases

IndicesSettled ==
    /\ \A k \in DOMAIN phone_index :
        /\ phone_index[k] \in DOMAIN contacts
        /\ k \in PhoneKeys(contacts[phone_index[k]])
    /\ \A k \in DOMAIN email_index :
        /\ email_index[k] \in DOMAIN contacts
        /\ k \in EmailKeys(contacts[email_index[k]])

\* C6: with several requests on the same cache, while a mutation runs its
\* look up, mutate, persist sequence no other handler has started and not
\* returned, and no handler that reads the indices does so while another
\* handler is in the middle of its call.
C6_MutationsNotInterleaved ==
    /\ \A r1, r2 \in Requests : (r1 # r2 /\ Busy(r1)) => ~Busy(r2)
    /\ \A r \in Requests : ~req[r].sawBusy
    /\ \A r \in Requests :
        (req[r].pc \in {"lookup", "resolve"}) => IndicesSettled

\* an upsert that updates a contact is between unindexing and indexing it,
\* so that a key of the contact is missing from its index, while the resolve
\* of another request waits for the event loop
C6_Witness ==
    \E r1, r2 \in Requests :
        /\ req[r1].op = "upsert" /\ req[r1].pc = "merge"
        /\ \/ ~(PhoneKeys(contacts[req[r1].existing_id]) \subseteq DOMAIN phone_index)
           \/ ~(EmailKeys(contacts[req[r1].existing_id]) \subseteq DOMAIN email_index)
        /\ req[r2].op = "resolve" /\ req[r2].pc = "ready"

-----------------------------------------------------------------------------
(* The claims about the watch stream *)

\* C5: once a watch stream is closed, on whatever exit path, the subprocess
\* it started has exited; no subprocess of a closed stream is still running,
\* signalled or not.
C5_NoSubprocessAfterClose ==
    \A s \in Streams : wpc[s] = "closed" => proc[s] \notin {"running", "term_sent"}

-----------------------------------------------------------------------------
(* The claims about sending *)

\* C7: when a send allowlist is configured, every recipient handed to the
\* imsg send command, by send or by reply, is in the allowlist.
C7_OnlyAllowlisted ==
    allowlist # {} => handed \subseteq allowlist

-----------------------------------------------------------------------------
(* The claims about the text of a Message *)

\* C8: the text of every Message, on the history, watch and search path,
\* holds none of the seven code points and no surrounding whitespace, is
\* the PII-filtered form of the raw text after those were removed, and with
\* the regex filter holds no social security number, not even one that the
\* removed code points hid in the raw text.
C8_TextCleanedThenFiltered ==
    (message.path # "none" /\ message.text # None) =>
        LET text == message.text
            cleaned == IF message.raw = None THEN <<>>
                       ELSE Strip(SelectSeq(message.raw, Kept))
        IN  /\ \A i \in 1..Len(text) : text[i] \notin _STRIP_CHARS
            /\ text # <<>> => ~IsSpace(text[1]) /\ ~IsSpace(text[Len(text)])
            /\ text = filter_pii(cleaned)
            /\ pii_filter = "regex" =>
                    \A i \in 1..Len(text) : ~MatchesSSNAt(text, i)

\* a watch message whose raw text is a social security number with an
\* invisible character in it and whitespace around it, and whose text is
\* the redaction
C8_Witness ==
    /\ message.path = "watch"
    /\ message.raw # None
    /\ \E i \in 1..Len(message.raw) : message.raw[i] \in _STRIP_CHARS
    /\ IsSpace(message.raw[1]) /\ IsSpace(message.raw[Len(message.raw)])
    /\ ~\E i \in 1..Len(message.raw) : MatchesSSNAt(message.raw, i)
    /\ message.text = REDACTED_SSN

-----------------------------------------------------------------------------
(* The claims about the CLI adapters *)

\* C11: a call that fails with the error of the timeout has killed its
\* subprocess and waited until it had exited, before it fails; and a call
\* starts its command once, it never starts it again
C11_TimeoutKillsAndWaits ==
    \A c \in Callers :
        /\ call[c].spawned <= 1
        /\ call[c].pc = "raise" \/ call[c].result.kind = "Timeout" =>
             /\ call[c].proc = "exited"
             /\ call[c].spawned = 1

\* a call of imsg and a call of remindctl have both failed with the timeout
C11_Witness ==
    \E c1, c2 \in Callers :
        /\ call[c1].tool \in {"imsg", "imsg_raw"}
        /\ call[c1].result.kind = "Timeout"
        /\ call[c2].tool = "remindctl"
        /\ call[c2].result.kind = "Timeout"

\* the diagnostic text the claim asks for: the standard error when it is
\* not empty, the standard output otherwise
StderrElseStdout(k) ==
    IF Strip(k.stderr) # <<>> THEN Strip(k.stderr) ELSE Strip(k.stdout)

\* C12: a call whose subprocess exits with a non-zero code fails with
\* ToolFailed and that exit code, and the diagnostic text of the failure is
\* the standard error of the subprocess when that is not empty and its
\* standard output otherwise, in the structured mode as in the raw mode
C12_DiagnosticIsStderrElseStdout ==
    \A c \in Callers :
        call[c].pc = "done" /\ call[c].proc = "exited" /\ call[c].returncode # 0
        /\ call[c].result.kind # "Timeout" =>
            /\ call[c].result.kind = "ToolFailed"
            /\ call[c].result.code = call[c].returncode
            /\ call[c].result.stderr = StderrElseStdout(call[c])

\* C13: an operation whose binary is missing fails with the classified
\* ToolNotFound error; for a watch stream: a stream that ended without a
\* subprocess, because the binary was not found, ended with ToolNotFound
C13_MissingBinaryIsToolNotFound ==
    \A s \in Streams :
        wpc[s] = "closed" /\ proc[s] = "none" => whow[s] = "ToolNotFound"

\* C14: whenever a call of an adapter made for an operation fails, the
\* operation ends with that error: it is answered as the error of the
\* adapter, never as a normal result
C14_AdapterFailurePropagates ==
    lookup.failure # "" =>
        /\ lookup.body = "error"
        /\ lookup.error = lookup.failure

\* C15: whatever the subprocess wrote, the diagnostic text of an error
\* handed to the caller (the dictionary of an imsg error, the dictionary of
\* a remindctl error, the error field of the response to a send) has at
\* most StderrLimit characters
C15_DiagnosticBounded ==
    \A c \in Callers :
        call[c].pc = "done" /\ call[c].result.kind # "ok" =>
            Len(DiagnosticHanded(c)) <= StderrLimit

\* the call of c waits for its subprocess: for its output, or for its end
\* after the kill
WaitsForSubprocess(c) ==
    call[c].pc \in {"communicate", "wait"} /\ call[c].proc # "exited"

\* C17: while a request waits for its subprocess, the other requests go on
\* being handled: the event loop is not held by the request that waits
C17_WaitSuspendsOnlyItsRequest ==
    \A c \in Callers : WaitsForSubprocess(c) => running # c

-----------------------------------------------------------------------------
(* The claims about the validation of requests *)

\* the text has a character outside the safe pattern
HasUnsafeChar(text) == \E i \in 1..Len(text) : ~SafeChar(text[i])

\* the request has no scope: no thread id and no recipient, or no key
NoScope ==
    /\ handled.op \in {"search", "links", "reply", "resolve"}
    /\ handled.thread_id = NoThread
    /\ \A i \in 1..Len(handled.keys) : ~Truthy(handled.keys[i])

\* the request has a reminder id or a list name with a character outside
\* the safe pattern
UnsafeIdentifier ==
    \E i \in 1..Len(handled.ids) : HasUnsafeChar(handled.ids[i])

\* C16: a request without scope, and a reminders request with a reminder id
\* or a list name that has a character outside the safe pattern, is
\* rejected with the validation error, and no subprocess is started for it
C16_InvalidRejectedBeforeSubprocess ==
    NoScope \/ UnsafeIdentifier => handled.status = 400 /\ ~handled.started

-----------------------------------------------------------------------------
(* The claims about the output of the subprocesses *)

\* the records of one line: the object of an object line, the elements of
\* an array line, nothing for any other line
RecordsOfLine(line) ==
    IF JSONDecodeError(line) THEN <<>>
    ELSE CASE json_loads(line).type = "dict" -> <<json_loads(line)>>
           [] json_loads(line).type = "list" -> json_loads(line).items
           [] OTHER -> <<>>

\* the records of the lines, in the order of the lines
RECURSIVE RecordsInLineOrder(_)
RecordsInLineOrder(lines) ==
    IF lines = <<>> THEN <<>>
    ELSE RecordsOfLine(Head(lines)) \o RecordsInLineOrder(Tail(lines))

\* C18: the result of a structured call that succeeded is the sequence of
\* the records of its well-formed lines in the order of the lines, one per
\* object line, the elements of an array line in its place; a line that is
\* no JSON does not make the call fail and takes no record of another line
\* away
C18_RecordsInLineOrder ==
    parsed.stdout # None =>
        /\ parsed.result.kind = "ok"
        /\ parsed.result.value = RecordsInLineOrder(Split(parsed.stdout, "\n"))

\* an output with an object line, then a line that is no JSON, then an array
\* line: the call returned the object and then the elements of the array
C18_Witness ==
    /\ parsed.stdout = JoinLines(<< <<"{", "1", "}">>, <<"x">>,
                                   <<"[", "{", "3", "}", ",", "{", "4", "}", "]">> >>)
    /\ parsed.result.kind = "ok"
    /\ Len(parsed.result.value) = 3
    /\ parsed.result.value[1].id = "1"
    /\ parsed.result.value[3].id = "4"

\* C19: in a watch stream a line that cannot be turned into a message is
\* skipped and the stream goes on with the next line, so no line makes the
\* stream fail; and the messages are yielded in the order of their lines
C19_UnusableLineSkipped ==
    \A s \in Streams :
        /\ whow[s] # "raised"
        /\ \A i, j \in 1..Len(delivered[s]) :
             i < j => delivered[s][i] < delivered[s][j]

\* the numbers of the lines of the history that match the query, in the
\* order of the lines
RECURSIVE MatchingLines(_, _, _)
MatchingLines(lines, i, query) ==
    IF i > Len(lines) THEN <<>>
    ELSE LET line == Strip(lines[i])
             rest == MatchingLines(lines, i + 1, query)
         IN  IF ~SkippedLine(line) /\ LineMatches(line, query)
             THEN <<i>> \o rest ELSE rest

\* C20: search_messages_fast returns at most result_limit messages, exactly
\* result_limit when at least that many lines match, the first ones in the
\* order of the lines; and it looks at no line after the one that gave the
\* last of result_limit matches
C20_SearchStopsAtLimit ==
    searched.query # None /\ searched.raised = "" =>
        LET all == MatchingLines(searched.lines, 1, searched.query)
            n == Len(searched.matches)
        IN  /\ n <= searched.result_limit
            /\ Len(all) >= searched.result_limit => n = searched.result_limit
            /\ n <= Len(all)
            /\ \A k \in 1..n : searched.matches[k].n = all[k]
            /\ n = searched.result_limit => searched.examined = all[n]

\* a history of three matching lines searched with result_limit 2: the
\* first two are returned and the third line is not looked at
C20_Witness ==
    /\ searched.raised = ""
    /\ searched.result_limit = 2
    /\ Len(MatchingLines(searched.lines, 1, searched.query)) = 3
    /\ Len(searched.matches) = 2
    /\ searched.examined = 2

-----------------------------------------------------------------------------
(* The claims about links and threads *)

\* the message has the direction the request asks for
OfDirection(from_me, msg) ==
    \/ from_me = "None"
    \/ from_me = "True" /\ msg.is_from_me
    \/ from_me = "False" /\ ~msg.is_from_me

\* the URLs of the messages i, i - 1, ..., 1 that have the direction asked
\* for, each with the number of its message
RECURSIVE UrlsMostRecentFirst(_, _, _)
UrlsMostRecentFirst(messages, i, from_me) ==
    IF i = 0 THEN <<>>
    ELSE LET urls == IF OfDirection(from_me, messages[i])
                     THEN _extract_urls(messages[i].text) ELSE <<>>
         IN  [k \in 1..Len(urls) |-> <<urls[k], i>>]
                \o UrlsMostRecentFirst(messages, i - 1, from_me)

\* C21: extract_links returns at most limit links, the first limit URLs of
\* the messages taken from the most recent one back and from left to right
\* in a message; every link comes from a message of the direction asked
\* for, and its sender is "me" exactly when its message is from me
C21_FirstLinksMostRecentFirst ==
    linked.out.kind = "ok" /\ linked.thread_id # NoThread =>
        LET all == UrlsMostRecentFirst(linked.messages, Len(linked.messages),
                                       linked.from_me)
            links == linked.out.links
        IN  /\ Len(links) <= linked.limit
            /\ Len(links) = IF Len(all) <= linked.limit THEN Len(all)
                            ELSE linked.limit
            /\ \A k \in 1..Len(links) :
                /\ links[k].url = all[k][1]
                /\ links[k].message_id = all[k][2]
                /\ OfDirection(linked.from_me, linked.messages[links[k].message_id])
                /\ links[k].sender = <<"m", "e">>
                     <=> linked.messages[links[k].message_id].is_from_me

\* received links only, limit 2, of three messages: the last one is from
\* me, the one before has two URLs; the two URLs of that message are
\* returned
C21_Witness ==
    /\ linked.out.kind = "ok"
    /\ linked.from_me = "False"
    /\ linked.limit = 2
    /\ Len(linked.messages) = 3
    /\ linked.messages[3].is_from_me
    /\ Len(_extract_urls(linked.messages[3].text)) = 1
    /\ Len(_extract_urls(linked.messages[1].text)) = 1
    /\ Len(linked.out.links) = 2
    /\ linked.out.links[1].message_id = 2
    /\ linked.out.links[2].url = "HTTPS://c.d/e"

\* the first thread of the listing whose probe returns a message, 0 when
\* there is none
FirstHitAt(listed) ==
    IF \E i \in 1..Len(listed) : listed[i].probe = "message"
    THEN CHOOSE i \in 1..Len(listed) :
            /\ listed[i].probe = "message"
            /\ \A j \in 1..(i - 1) : listed[j].probe # "message"
    ELSE 0

-----------------------------------------------------------------------------
(* The claims about the contact cache and its file *)

\* C23: constructing a ContactCache never fails because of the persistence
\* file: on a missing file, and on a file that is no valid JSON, no list, or
\* a list with an entry that is no contact record, the cache starts empty and
\* no exception is raised
C23_ConstructorNeverFails ==
    ret.op = "load" =>
        /\ ret.status \notin ItemErrors
        /\ file.state # "ok" => contacts = EmptyMap /\ phone_index = EmptyMap
                                   /\ email_index = EmptyMap

-----------------------------------------------------------------------------
(* The claims about the watch streams *)

\* the step is one of stream s alone: of no other stream does it change the
\* subprocess, the position of the generator, the pipe or what was yielded
OnlyStream(s) ==
    \A t \in Streams \ {s} :
        /\ proc'[t] = proc[t]
        /\ wpc'[t] = wpc[t]
        /\ whow'[t] = whow[t]
        /\ pipe'[t] = pipe[t]
        /\ delivered'[t] = delivered[t]

\* C24: with several watch streams open, a stream that is cancelled or ends
\* signals only its own subprocess: a subprocess is sent SIGTERM only by the
\* step that ends its stream, and the step that ends a stream leaves the
\* subprocess, the generator and the output of every other stream as they
\* are, so that they keep running and yielding
C24_EndingOneStreamLeavesOthers ==
    [][\A s \in Streams :
        /\ (proc[s] # "term_sent" /\ proc'[s] = "term_sent") =>
                wpc[s] \in {"readline", "yield"} /\ wpc'[s] = "wait"
        /\ (wpc[s] \in {"readline", "yield", "wait"}
                /\ wpc'[s] \in {"wait", "closed"} /\ wpc'[s] # wpc[s]) =>
                OnlyStream(s)]_vars

\* stream 1 was cancelled and its subprocess is gone, while the subprocess
\* of stream 2 runs and stream 2 has yielded both of its messages
C24_Witness ==
    /\ whow[1] = "cancelled"
    /\ wpc[1] = "closed"
    /\ proc[1] = "reaped"
    /\ proc[2] = "running"
    /\ wpc[2] = "yield"
    /\ Len(delivered[2]) = MaxLines

\* C28: after any sequence of upsert and delete from an empty cache no
\* normalized phone and no lowercased email belongs to two different
\* contacts, and every key of an index maps to the one contact that holds it
C28_KeysHaveOneHolder ==
    /\ \A i, j \in DOMAIN contacts :
        i # j => /\ PhoneKeys(contacts[i]) \cap PhoneKeys(contacts[j]) = {}
                 /\ EmailKeys(contacts[i]) \cap EmailKeys(contacts[j]) = {}
    /\ \A k \in DOMAIN phone_index :
        /\ phone_index[k] \in DOMAIN contacts
        /\ k \in PhoneKeys(contacts[phone_index[k]])
    /\ \A k \in DOMAIN email_index :
        /\ email_index[k] \in DOMAIN contacts
        /\ k \in EmailKeys(contacts[email_index[k]])

\* C29: persisting the cache and loading it again does not change what
\* resolve answers: a cache constructed on the file that holds the contacts
\* in memory gives, for every phone, email and name, the status and the
\* contact ids the cache gave before
C29_ReloadKeepsResolve ==
    [][(ret'.op = "load" /\ FileHolds(file, contacts)) =>
        \A q \in KeyedQueries :
            ResolveResult(q[1], q[2], q[3]) = ResolveResult(q[1], q[2], q[3])']_vars

\* C30: as long as the caller keeps consuming, what the subprocess writes
\* to its stdout and stderr pipes is eventually read, so that the subprocess
\* is never blocked forever on a full pipe, and every line of stdout is
\* eventually taken out of the pipe by the stream
C30_WatchNeverStalls ==
    \A s \in Streams :
        /\ (errpipe[s] > 0) ~> (errpipe[s] = 0 \/ whow[s] # "")
        /\ (proc[s] = "blocked") ~> (proc[s] # "blocked")
        /\ (pipe[s] # <<>>) ~> (pipe[s] = <<>> \/ whow[s] # "")

-----------------------------------------------------------------------------
(* The claims about the PII filter *)

\* C25: with the regex filter on, a text that holds a substring of the
\* shape ddd-dd-dddd, whatever precedes or follows it, comes out without
\* that substring and with [REDACTED-SSN] in it
C25_SsnRedactedAnywhere ==
    (/\ pii_filter = "regex"
     /\ message.path \in {"history", "watch"}
     /\ message.raw # None
     /\ Contains(message.raw, SSN)) =>
        /\ ~Contains(message.text, SSN)
        /\ Contains(message.text, REDACTED_SSN)

-----------------------------------------------------------------------------
(* The claims about the records of imsg *)

\* C26: a field with several alias keys takes the value of the first alias
\* key that is present in the record, whatever that value is; a later alias
\* is used only when every earlier one is absent
C26_FirstPresentAliasWins ==
    aliased.value # NotTaken =>
        aliased.value =
            IF aliased.held1 # Absent THEN aliased.held1
            ELSE get(aliased.held2, aliased.d2)

-----------------------------------------------------------------------------
(* The claims about the reminders *)

\* C27: list_reminders hands the value of the selected filter to remindctl
\* as an argument, for every filter, ALL ("all") included
C27_FilterValuePassed ==
    shown.out # NotShown =>
        \E i \in 1..Len(shown.out.args) : shown.out.args[i] = shown.filter

====
